---------------------------- MODULE Spec2Model ----------------------------
(***************************************************************************)
(* Model of sped_fixer: the rule engine SPEDAutoFixer (load, fix_all,      *)
(* get_corrected_content), the five rules it runs, and SpedParser.         *)
(*                                                                         *)
(* A text is a sequence of characters (one-character strings); a line is a *)
(* text without "\n"; a field is a text without "|".  Python list indices  *)
(* are 0-based: F(r, i) reads r.fields[i].  A record is identified by its  *)
(* line_no (the loader gives every record of a file a different one); a    *)
(* parent reference is the parent's line_no, NoParent for None.            *)
(***************************************************************************)
EXTENDS Integers, Sequences, FiniteSets, TLC

VARIABLES
    input,      \* text of the file the current SPEDAutoFixer was built on
    sped_type,  \* SPEDAutoFixer.sped_type
    rules,      \* SPEDAutoFixer.rules
    records,    \* SPEDAutoFixer.sped.records, the same list as context.records
    issues,     \* the list fix_all collects
    ri,         \* position of fix_all's outer loop in rules (1-based)
    idx,        \* index of the inner loop's list iterator (0-based)
    pc,         \* "fixing", "fixed", "emitted", "raised"
    run,        \* 1: the pipeline on the uploaded file, 2: on its own output
    output,     \* the texts get_corrected_content returned, one per run
    loaded,     \* history: the records as _load_spd built them in this run
    snapshot,   \* history: the record list when the current rule's pass began
    visited,    \* history: line_no of the records the current pass validated
    ptext,      \* SpedParser: the text given to parse
    precs,      \* SpedParser: the records parse returned
    pout,       \* SpedParser: the text reassemble returned
    ppc,        \* SpedParser: "text", "parsed", "reassembled"
    ref_data,   \* SPEDComparator: the reference file, records grouped by reg
    aud_data,   \* SPEDComparator: the audited file, records grouped by reg
    result,     \* SPEDComparator: what the last compare returned
    previous,   \* SPEDComparator: what the compare before the last returned
    cpc,        \* SPEDComparator: "ready", "compared", "swapped"
    irecords,   \* SPEDTypeIdentifier.records
    identified, \* what identify_type returned
    problematic,    \* ImpactAnalyzer: line_no of the record given to trace_impact
    impacts,        \* ImpactAnalyzer: line_no of the records trace_impact returned
    impact_summary, \* what get_impact_summary returned
    spc,            \* get_impact_summary: "idle", "calling", "returned"
    held,           \* history: the context's records when it was called
    sim_ref,    \* similarity comparator: the reference records
    sim_aud,    \* similarity comparator: the audited records
    sim_result, \* similarity comparator: what compare returned
    fixed,      \* line_no of the records rule.fix was called on, call by call
    prior       \* the context's records before the last of these calls

engineVars == <<input, sped_type, rules, records, issues, ri, idx, pc, run,
                output, loaded, snapshot, visited>>
parserVars == <<ptext, precs, pout, ppc>>
comparatorVars == <<ref_data, aud_data, result, previous, cpc>>
identifierVars == <<irecords, identified>>
impactVars == <<problematic, impacts, impact_summary, spc, held>>
similarityVars == <<sim_ref, sim_aud, sim_result>>
fixVars == <<fixed, prior>>
vars == <<engineVars, parserVars, comparatorVars, identifierVars, impactVars,
          similarityVars, fixVars>>

----------------------------------------------------------------------------
(* Characters and Python's string operations                               *)

PIPE == "|"
NL == "\n"
SP == " "
COMMA == ","
DOT == "."

DigitChars == {"0", "1", "2", "3", "4", "5", "6", "7", "8", "9"}
AlphaChars == {"A", "C", "E", "K", "X"}

DigitVal(c) ==
    CASE c = "0" -> 0 [] c = "1" -> 1 [] c = "2" -> 2 [] c = "3" -> 3
      [] c = "4" -> 4 [] c = "5" -> 5 [] c = "6" -> 6 [] c = "7" -> 7
      [] c = "8" -> 8 [] c = "9" -> 9

NoParent == 0

Last(s) == s[Len(s)]

\* s[a:b] of Python on a TLA+ sequence, for 0 <= a and 0 <= b
Slice(s, a, b) == SubSeq(s, a + 1, IF b < Len(s) THEN b ELSE Len(s))

\* position of the first c in s, 0 when there is none
RECURSIVE FirstAt(_, _, _)
FirstAt(s, c, i) ==
    IF i > Len(s) THEN 0
    ELSE IF s[i] = c THEN i ELSE FirstAt(s, c, i + 1)

\* str.split(c): always at least one part
RECURSIVE Split(_, _)
Split(s, c) ==
    LET i == FirstAt(s, c, 1)
    IN  IF i = 0 THEN <<s>>
        ELSE <<SubSeq(s, 1, i - 1)>> \o Split(SubSeq(s, i + 1, Len(s)), c)

\* c.join(parts)
RECURSIVE Join(_, _)
Join(parts, c) ==
    IF Len(parts) = 0 THEN <<>>
    ELSE IF Len(parts) = 1 THEN parts[1]
    ELSE parts[1] \o <<c>> \o Join(Tail(parts), c)

\* "\n".join(lines)
JoinLines(lines) == Join(lines, NL)

IsSpace(c) == c = SP \/ c = NL

RECURSIVE LStrip(_)
LStrip(s) ==
    IF Len(s) > 0 /\ IsSpace(s[1]) THEN LStrip(Tail(s)) ELSE s

RECURSIVE RStrip(_)
RStrip(s) ==
    IF Len(s) > 0 /\ IsSpace(Last(s)) THEN RStrip(SubSeq(s, 1, Len(s) - 1)) ELSE s

\* str.strip()
Strip(s) == LStrip(RStrip(s))

\* the lines a text file yields when iterated, and str.splitlines(): the text
\* cut at every "\n", a final "\n" opening no further line
TextLines(text) ==
    LET parts == Split(text, NL)
    IN  IF Last(parts) = <<>> THEN SubSeq(parts, 1, Len(parts) - 1) ELSE parts

\* str.replace(a, b) for single characters
Replace(s, a, b) == [i \in 1..Len(s) |-> IF s[i] = a THEN b ELSE s[i]]

\* the characters of s that are not c: str.replace(c, "")
RECURSIVE Remove(_, _)
Remove(s, c) ==
    IF Len(s) = 0 THEN <<>>
    ELSE (IF s[1] = c THEN <<>> ELSE <<s[1]>>) \o Remove(Tail(s), c)

\* s.startswith((c1, c2, ...))
StartsWith(t, chars) == Len(t) > 0 /\ t[1] \in chars

Contains(s, c) == \E i \in 1..Len(s) : s[i] = c

\* max(S)
Max(S) == CHOOSE x \in S : \A y \in S : y <= x


RECURSIVE SumSeq(_)
SumSeq(s) == IF Len(s) = 0 THEN 0 ELSE s[1] + SumSeq(Tail(s))

Abs(x) == IF x < 0 THEN -x ELSE x

----------------------------------------------------------------------------
(* Records                                                                 *)

\* base.Record(line_no, reg, fields): parent starts as None
Record(line_no, reg, fields) ==
    [line_no |-> line_no, reg |-> reg, fields |-> fields, parent |-> NoParent]

\* r.fields[i] and the guard len(r.fields) > i
F(r, i) == r.fields[i + 1]
HasF(r, i) == Len(r.fields) > i

\* list.index(r), 0-based, -1 when r is not in the list
RECURSIVE IndexOf(_, _, _)
IndexOf(recs, r, i) ==
    IF i > Len(recs) THEN -1
    ELSE IF recs[i].line_no = r.line_no THEN i - 1 ELSE IndexOf(recs, r, i + 1)

InList(recs, r) == \E i \in 1..Len(recs) : recs[i].line_no = r.line_no

\* SPEDAutoFixer._load_spd: one record per line that is not blank and has a
\* field between its first and its last "|"
RECURSIVE LoadLines(_, _)
LoadLines(lines, n) ==
    IF Len(lines) = 0 THEN <<>>
    ELSE LET line == Strip(lines[1])
             fields == Slice(Split(line, PIPE), 1, Len(Split(line, PIPE)) - 1)
             rest == LoadLines(Tail(lines), n + 1)
         IN  IF line = <<>> THEN rest
             ELSE IF Len(fields) < 1 THEN rest
             ELSE <<Record(n, fields[1], fields)>> \o rest

LoadSpd(text) == LoadLines(TextLines(text), 1)

----------------------------------------------------------------------------
(* Values shared by the rules                                              *)

\* Python's None where a text is expected: no text equals it, a text being a
\* sequence of one-character strings
None == <<"None">>

\* the truth value of a text-or-None: None and "" are false
Truthy(t) == t # None /\ t # <<>>

C100 == <<"C", "1", "0", "0">>
C500 == <<"C", "5", "0", "0">>
C170 == <<"C", "1", "7", "0">>
C190 == <<"C", "1", "9", "0">>
C800 == <<"C", "8", "0", "0">>
C850 == <<"C", "8", "5", "0">>
E110 == <<"E", "1", "1", "0">>

AllDigits(s) == \A i \in 1..Len(s) : s[i] \in DigitChars

\* float(s) accepts s: blanks around, then digits with at most one "." and at
\* least one digit.  (Signs, exponents, "inf", "nan" and "_" are written with
\* characters no field of InputLines combines that way.)
FloatOk(s) ==
    LET t == Strip(s)
        parts == Split(t, DOT)
    IN  /\ Len(parts) \in {1, 2}
        /\ \A i \in 1..Len(parts) : AllDigits(parts[i])
        /\ \E i \in 1..Len(parts) : Len(parts[i]) > 0

RECURSIVE DigitsVal(_)
DigitsVal(s) ==
    IF Len(s) = 0 THEN 0
    ELSE 10 * DigitsVal(SubSeq(s, 1, Len(s) - 1)) + DigitVal(Last(s))

\* float(s) in hundredths, for s with FloatOk(s); a third and later decimal
\* are beyond the model's resolution and the fields of InputLines have none
FloatVal(s) ==
    LET parts == Split(Strip(s), DOT)
        frac == IF Len(parts) = 2 THEN parts[2] ELSE <<>>
    IN  100 * DigitsVal(parts[1])
          + (IF Len(frac) >= 1 THEN 10 * DigitVal(frac[1]) ELSE 0)
          + (IF Len(frac) >= 2 THEN DigitVal(frac[2]) ELSE 0)

\* to_float of TotalizadorBlocoC_vs_BlocoE and ConsistenciaC170_vs_C100:
\* float(value.replace(",", ".")); ToFloatRaises is its ValueError
ToFloatRaises(value) == ~FloatOk(Replace(value, COMMA, DOT))
ToFloat(value) == FloatVal(Replace(value, COMMA, DOT))

\* abs(a - b) > 0.01 on hundredths
BeyondTolerance(a, b) == Abs(a - b) > 1

Issue(line_no, reg, rule_id, severity, fmt, texts, nums, suggestion) ==
    [line_no |-> line_no, reg |-> reg, rule_id |-> rule_id,
     severity |-> severity,
     message |-> [fmt |-> fmt, texts |-> texts, nums |-> nums],
     suggestion |-> suggestion]

\* what a call of validate or fix leaves behind: whether it raised, the
\* issues it returned, and the context's record list after it
Outcome(raised, iss, recs) == [raised |-> raised, issues |-> iss, records |-> recs]

\* the object a parent reference points to; heap holds every record object
\* built for this file, in the context or removed from it
Deref(heap, p) == heap[CHOOSE i \in 1..Len(heap) : heap[i].line_no = p]

\* a remove_record that also renumbers the records left to their position
RemoveRecordRenumbering(recs, r) ==
    LET kept == SelectSeq(recs, LAMBDA x : x.line_no # r.line_no)
    IN  [i \in 1..Len(kept) |-> [kept[i] EXCEPT !.line_no = i]]

\* Context.remove_record: list.remove of the record when it is in the list
RemoveRecord(recs, r) == SelectSeq(recs, LAMBDA x : x.line_no # r.line_no)

RECURSIVE RemoveAll(_, _)
RemoveAll(recs, dups) ==
    IF Len(dups) = 0 THEN recs
    ELSE RemoveAll(RemoveRecord(recs, dups[1]), Tail(dups))

----------------------------------------------------------------------------
(* R015_DuplicateDocument                                                  *)

R015Applies(record) == record.reg \in {C100, C500}

\* IndexError of record.fields[8] or of r.fields[8] in the comprehension
R015Raises(record, recs) ==
    /\ R015Applies(record)
    /\ \/ ~HasF(record, 8)
       \/ \E i \in 1..Len(recs) : recs[i].reg = record.reg /\ ~HasF(recs[i], 8)

R015Duplicates(record, recs) ==
    SelectSeq(recs, LAMBDA r : /\ r.reg = record.reg
                               /\ F(r, 8) = F(record, 8)
                               /\ r.line_no # record.line_no)

R015Validate(record, recs) ==
    IF ~R015Applies(record) THEN Outcome(FALSE, <<>>, recs)
    ELSE IF R015Raises(record, recs) THEN Outcome(TRUE, <<>>, recs)
    ELSE IF Len(R015Duplicates(record, recs)) > 0
         THEN Outcome(FALSE,
                      <<Issue(record.line_no, record.reg, "R015", "error",
                              "Documento {key} duplicado", <<F(record, 8)>>, <<>>,
                              "Manter apenas ultima ocorrencia")>>,
                      recs)
         ELSE Outcome(FALSE, <<>>, recs)

R015Fix(record, recs) ==
    IF ~R015Applies(record) THEN Outcome(FALSE, <<>>, recs)
    ELSE IF R015Raises(record, recs) THEN Outcome(TRUE, <<>>, recs)
    ELSE Outcome(FALSE, <<>>, RemoveAll(recs, R015Duplicates(record, recs)))

----------------------------------------------------------------------------
(* RC170_DuplicateDocument_C170                                            *)

\* line_no of the last record of type reg before position i, NoParent if none
RECURSIVE LastBefore(_, _, _)
LastBefore(recs, i, reg) ==
    IF i <= 1 THEN NoParent
    ELSE IF recs[i - 1].reg = reg THEN recs[i - 1].line_no
    ELSE LastBefore(recs, i - 1, reg)

\* _ensure_parents of RC170 (child C170, parent C100) and of RC850 (child
\* C850, parent C800): a child whose parent is None gets the last parent
\* record before it in the list
EnsureParents(recs, child, parentReg) ==
    [i \in 1..Len(recs) |->
        IF recs[i].reg = child /\ recs[i].parent = NoParent
        THEN [recs[i] EXCEPT !.parent = LastBefore(recs, i, parentReg)]
        ELSE recs[i]]

\* _normalize_number of RC170: '1.234,56' -> '1234.56', '26,24' -> '26.24'
NormalizeNumber(s) ==
    LET t == Strip(s)
    IN  IF t = <<>> THEN <<>>
        ELSE IF Contains(t, DOT) /\ Contains(t, COMMA)
             THEN Replace(Remove(t, DOT), COMMA, DOT)
        ELSE IF Contains(t, COMMA) THEN Replace(t, COMMA, DOT)
        ELSE t

\* re.match(r'^[A-Za-z0-9\-\./]{3,}$', val)
IsCodeChar(c) == c \in AlphaChars \/ c \in DigitChars \/ c = DOT
MatchesCode(val) == Len(val) >= 3 /\ \A i \in 1..Len(val) : IsCodeChar(val[i])

\* re.search(r'[A-Za-z0-9]', f)
HasAlnum(f) == \E i \in 1..Len(f) : f[i] \in AlphaChars \/ f[i] \in DigitChars

\* the first of the fields that passed a test, None when none did
FirstOr(hits) == IF Len(hits) > 0 THEN hits[1] ELSE None

\* _find_item_code: the first of fields[2..5] that looks like a code, else
\* the first field of three or more characters that has a letter or a digit
FindItemCode(rec) ==
    LET cands == SelectSeq(Slice(rec.fields, 2, 6), MatchesCode)
    IN  IF Len(cands) > 0 THEN cands[1]
        ELSE FirstOr(SelectSeq(rec.fields, LAMBDA f : Len(f) >= 3 /\ HasAlnum(f)))

IsSep(c) == c = DOT \/ c = COMMA

\* the tail (?:[.,]\d{3})*(?:[.,]\d+)?$ of the number pattern, from position i
RECURSIVE MatchesGroups(_, _)
MatchesGroups(s, i) ==
    \/ i > Len(s)
    \/ /\ IsSep(s[i])
       /\ i < Len(s)
       /\ \A j \in (i + 1)..Len(s) : s[j] \in DigitChars
    \/ /\ IsSep(s[i])
       /\ i + 3 <= Len(s)
       /\ \A j \in (i + 1)..(i + 3) : s[j] \in DigitChars
       /\ MatchesGroups(s, i + 4)

\* re.match(r'^\d{1,3}(?:[.,]\d{3})*(?:[.,]\d+)?$', s)
MatchesNumber(s) ==
    \E a \in 1..3 :
        /\ a <= Len(s)
        /\ \A j \in 1..a : s[j] \in DigitChars
        /\ MatchesGroups(s, a + 1)

StripAll(fs) == [i \in 1..Len(fs) |-> Strip(fs[i])]

\* _find_value_field: the first of fields[6..29] that is a number, else the
\* first field of the record that is one; the stripped text, or None
FindValueField(rec) ==
    LET late == SelectSeq(StripAll(Slice(rec.fields, 6, 30)), MatchesNumber)
    IN  IF Len(late) > 0 THEN late[1]
        ELSE FirstOr(SelectSeq(StripAll(rec.fields), MatchesNumber))

\* the C100 records before rec in the list, nearest first
RECURSIVE C100Before(_, _)
C100Before(recs, i) ==
    IF i < 1 THEN <<>>
    ELSE (IF recs[i].reg = C100 THEN <<recs[i]>> ELSE <<>>) \o C100Before(recs, i - 1)

\* _doc_key_of of RC170: fields[8] of the parent C100, else of the nearest
\* C100 before rec in the context; None when there is none or it is too short
DocKeyOf(rec, recs, heap) ==
    IF rec.parent # NoParent /\ Deref(heap, rec.parent).reg = C100
    THEN (IF HasF(Deref(heap, rec.parent), 8)
          THEN F(Deref(heap, rec.parent), 8) ELSE None)
    ELSE LET before == C100Before(recs, IndexOf(recs, rec, 1))
         IN  IF Len(before) = 0 THEN None
             ELSE IF HasF(before[1], 8) THEN F(before[1], 8) ELSE None

\* _unique_key_for of RC170: "doc_key|item_code|normalised value", or None
UniqueKeyFor(rec, recs, heap) ==
    LET doc_key == DocKeyOf(rec, recs, heap)
        direct == IF HasF(rec, 2) /\ Len(Strip(F(rec, 2))) >= 2 THEN F(rec, 2) ELSE None
        item_code == IF Truthy(direct) THEN direct ELSE FindItemCode(rec)
        at6 == IF /\ HasF(rec, 6)
                  /\ Len(Strip(F(rec, 6))) > 0
                  /\ Strip(F(rec, 6))[1] \in DigitChars
               THEN F(rec, 6) ELSE None
        item_value == IF Truthy(at6) THEN at6 ELSE FindValueField(rec)
    IN  IF ~Truthy(doc_key) THEN None
        ELSE IF ~Truthy(item_code) THEN None
        ELSE IF item_value = None THEN None
        ELSE Strip(doc_key) \o <<PIPE>> \o Strip(item_code) \o <<PIPE>>
               \o NormalizeNumber(item_value)

\* the C170 records of the context that have the key of rec
RC170Occurrences(rec, recs, heap) ==
    SelectSeq(recs, LAMBDA r : /\ r.reg = C170
                               /\ UniqueKeyFor(r, recs, heap) = UniqueKeyFor(rec, recs, heap))

\* the text or None as the f-string prints it
RC170Validate(record, recs0, heap) ==
    LET recs == EnsureParents(recs0, C170, C100)
        rec == IF InList(recs, record)
               THEN recs[IndexOf(recs, record, 1) + 1] ELSE record
        unique == UniqueKeyFor(rec, recs, heap)
        occ == RC170Occurrences(rec, recs, heap)
        code == IF HasF(rec, 2)
                THEN (IF Truthy(FindItemCode(rec)) THEN FindItemCode(rec) ELSE F(rec, 2))
                ELSE <<"?">>
        value == IF Truthy(FindValueField(rec)) THEN FindValueField(rec)
                 ELSE IF HasF(rec, 6) THEN F(rec, 6) ELSE <<"?">>
    IN  IF rec.reg # C170 THEN Outcome(FALSE, <<>>, recs)
        ELSE IF ~Truthy(unique) THEN Outcome(FALSE, <<>>, recs)
        ELSE IF Len(occ) <= 1 THEN Outcome(FALSE, <<>>, recs)
        ELSE IF Last(occ).line_no # rec.line_no
             THEN Outcome(FALSE,
                          <<Issue(rec.line_no, rec.reg, "RC170", "error",
                                  "Item duplicado na nota {doc_key}: codigo={item_code}, valor={item_value}",
                                  <<DocKeyOf(rec, recs, heap), code, value>>, <<>>,
                                  "Manter apenas ultima ocorrencia")>>,
                          recs)
        ELSE Outcome(FALSE, <<>>, recs)

\* RC170.fix: all occurrences of the key but the last leave the context
RC170Fix(record, recs0, heap) ==
    LET recs == EnsureParents(recs0, C170, C100)
        rec == IF InList(recs, record)
               THEN recs[IndexOf(recs, record, 1) + 1] ELSE record
        unique == UniqueKeyFor(rec, recs, heap)
        occ == RC170Occurrences(rec, recs, heap)
    IN  IF rec.reg # C170 THEN Outcome(FALSE, <<>>, recs)
        ELSE IF ~Truthy(unique) THEN Outcome(FALSE, <<>>, recs)
        ELSE IF Len(occ) <= 1 THEN Outcome(FALSE, <<>>, recs)
        ELSE Outcome(FALSE, <<>>, RemoveAll(recs, SubSeq(occ, 1, Len(occ) - 1)))

----------------------------------------------------------------------------
(* RC850_DupicateDocument_C850                                             *)

\* _doc_key_of of RC850: NUM_CFE|NUM_SAT|DT_DOC of the parent C800, or None
DocKeyOf850(rec, heap) ==
    IF rec.parent # NoParent /\ Deref(heap, rec.parent).reg = C800
    THEN (IF HasF(Deref(heap, rec.parent), 5)
          THEN F(Deref(heap, rec.parent), 3) \o <<PIPE>>
                 \o F(Deref(heap, rec.parent), 4) \o <<PIPE>>
                 \o F(Deref(heap, rec.parent), 5)
          ELSE None)
    ELSE None

\* _unique_key_for of RC850: doc_key|CST|CFOP|ALIQ, or None
UniqueKeyFor850(rec, heap) ==
    IF ~Truthy(DocKeyOf850(rec, heap)) THEN None
    ELSE IF ~HasF(rec, 3) THEN None
    ELSE DocKeyOf850(rec, heap) \o <<PIPE>> \o F(rec, 1) \o <<PIPE>>
           \o F(rec, 2) \o <<PIPE>> \o F(rec, 3)

RC850Occurrences(rec, recs, heap) ==
    SelectSeq(recs, LAMBDA r : /\ r.reg = C850
                               /\ UniqueKeyFor850(r, heap) = UniqueKeyFor850(rec, heap))

\* COD_SIT of a cancelled C800
CancelledCodes == {<<"0", "2">>, <<"0", "3">>}

RC850Validate(record, recs0, heap) ==
    LET recs == EnsureParents(recs0, C850, C800)
        rec == IF InList(recs, record)
               THEN recs[IndexOf(recs, record, 1) + 1] ELSE record
        parent == Deref(heap, rec.parent)
        cod_sit == IF HasF(parent, 2) THEN F(parent, 2) ELSE None
        unique == UniqueKeyFor850(rec, heap)
        occ == RC850Occurrences(rec, recs, heap)
    IN  IF rec.reg # C850 THEN Outcome(FALSE, <<>>, recs)
        ELSE IF rec.parent = NoParent THEN Outcome(FALSE, <<>>, recs)
        ELSE IF parent.reg # C800 THEN Outcome(FALSE, <<>>, recs)
        ELSE IF cod_sit \in CancelledCodes
             THEN Outcome(FALSE,
                          <<Issue(rec.line_no, rec.reg, "RC850", "error",
                                  "C800 cancelado (COD_SIT={cod_sit}) nao pode possuir C850",
                                  <<cod_sit>>, <<>>, "Remover C850 vinculado")>>,
                          recs)
        ELSE IF ~Truthy(unique) THEN Outcome(FALSE, <<>>, recs)
        ELSE IF Len(occ) > 1 /\ Last(occ).line_no # rec.line_no
             THEN Outcome(FALSE,
                          <<Issue(rec.line_no, rec.reg, "RC850", "error",
                                  "Duplicidade em {doc_key}: CST=, CFOP=, ALIQ=",
                                  <<DocKeyOf850(rec, heap), F(rec, 1), F(rec, 2), F(rec, 3)>>,
                                  <<>>, "Manter apenas ultima ocorrencia")>>,
                          recs)
        ELSE Outcome(FALSE, <<>>, recs)

\* RC850.fix: all occurrences of the key but the last leave the context
RC850Fix(record, recs0, heap) ==
    LET recs == EnsureParents(recs0, C850, C800)
        rec == IF InList(recs, record)
               THEN recs[IndexOf(recs, record, 1) + 1] ELSE record
        occ == RC850Occurrences(rec, recs, heap)
    IN  IF rec.reg # C850 THEN Outcome(FALSE, <<>>, recs)
        ELSE IF ~Truthy(UniqueKeyFor850(rec, heap)) THEN Outcome(FALSE, <<>>, recs)
        ELSE IF Len(occ) <= 1 THEN Outcome(FALSE, <<>>, recs)
        ELSE Outcome(FALSE, <<>>, RemoveAll(recs, SubSeq(occ, 1, Len(occ) - 1)))

----------------------------------------------------------------------------
(* TotalizadorBlocoC_vs_BlocoE and ConsistenciaC170_vs_C100                *)

\* r.fields[i] cannot be read (IndexError) or converted (ValueError)
FieldRaises(r, i) == ~HasF(r, i) \/ ToFloatRaises(F(r, i))

FloatsOf(recs, i) == [k \in 1..Len(recs) |-> ToFloat(F(recs[k], i))]

TotalizadorValidate(record, recs) ==
    LET c190s == SelectSeq(recs, LAMBDA r : r.reg = C190)
        total_c190 == SumSeq(FloatsOf(c190s, 6))
        total_e110 == ToFloat(F(record, 1)) + ToFloat(F(record, 5))
    IN  IF record.reg # E110 THEN Outcome(FALSE, <<>>, recs)
        ELSE IF \/ \E k \in 1..Len(c190s) : FieldRaises(c190s[k], 6)
                \/ FieldRaises(record, 1)
                \/ FieldRaises(record, 5)
             THEN Outcome(TRUE, <<>>, recs)
        ELSE IF BeyondTolerance(total_c190, total_e110)
             THEN Outcome(FALSE,
                          <<Issue(record.line_no, record.reg, "R001", "error",
                                  "Divergencia de ICMS: Bloco C (R$ ) vs Bloco E (R$ )",
                                  <<>>, <<total_c190, total_e110>>,
                                  "Verificar registros C100/C170 com valores de ICMS divergentes")>>,
                          recs)
        ELSE Outcome(FALSE, <<>>, recs)

ConsistenciaValidate(record, recs) ==
    LET children == SelectSeq(recs, LAMBDA r : r.reg = C170 /\ r.parent = record.line_no)
        vl_total_itens == SumSeq(FloatsOf(children, 6))
        vl_merc == ToFloat(F(record, 15))
    IN  IF record.reg # C100 THEN Outcome(FALSE, <<>>, recs)
        ELSE IF Len(children) = 0 THEN Outcome(FALSE, <<>>, recs)
        ELSE IF \/ \E k \in 1..Len(children) : FieldRaises(children[k], 6)
                \/ FieldRaises(record, 15)
             THEN Outcome(TRUE, <<>>, recs)
        ELSE IF BeyondTolerance(vl_total_itens, vl_merc)
             THEN Outcome(FALSE,
                          <<Issue(record.line_no, record.reg, "R002", "error",
                                  "Soma de itens (R$ ) diverge do total das mercadorias (R$ )",
                                  <<>>, <<vl_total_itens, vl_merc>>,
                                  "Verificar itens C170 com valores incorretos")>>,
                          recs)
        ELSE Outcome(FALSE, <<>>, recs)

----------------------------------------------------------------------------
(* Rules of basic_rules_fiscal.py that _get_rules_for_type leaves out:     *)
(* R007_DuplicateCNPJ, R014_InventoryValueMismatch, R027_ExcessSpaces      *)

R0150 == <<"0", "1", "5", "0">>
H005 == <<"H", "0", "0", "5">>
H010 == <<"H", "0", "1", "0">>
H020 == <<"H", "0", "2", "0">>

\* only_digits: DIGITS.sub("", s or "")
OnlyDigits(s) == SelectSeq(s, LAMBDA c : c \in DigitChars)

\* the context's list with fields as the fields of record
SetFields(recs, record, fields) ==
    [i \in 1..Len(recs) |->
        IF recs[i].line_no = record.line_no
        THEN [recs[i] EXCEPT !.fields = fields] ELSE recs[i]]

\* IndexError of record.fields[1] or of r.fields[1] in the comprehension
R007Raises(record, recs) ==
    \/ ~HasF(record, 1)
    \/ \E i \in 1..Len(recs) : recs[i].reg = R0150 /\ ~HasF(recs[i], 1)

R007Duplicates(record, recs) ==
    SelectSeq(recs, LAMBDA r : /\ r.reg = R0150
                               /\ OnlyDigits(F(r, 1)) = OnlyDigits(F(record, 1))
                               /\ r.line_no # record.line_no)

R007Validate(record, recs) ==
    IF record.reg # R0150 THEN Outcome(FALSE, <<>>, recs)
    ELSE IF R007Raises(record, recs) THEN Outcome(TRUE, <<>>, recs)
    ELSE IF Len(R007Duplicates(record, recs)) > 0
         THEN Outcome(FALSE,
                      <<Issue(record.line_no, record.reg, "R007", "error",
                              "CNPJ {cnpj} duplicado", <<OnlyDigits(F(record, 1))>>,
                              <<>>, "Manter apenas ultima ocorrencia")>>,
                      recs)
         ELSE Outcome(FALSE, <<>>, recs)

\* R007_DuplicateCNPJ.fix has no check of record.reg
R007Fix(record, recs) ==
    IF R007Raises(record, recs) THEN Outcome(TRUE, <<>>, recs)
    ELSE Outcome(FALSE, <<>>, RemoveAll(recs, R007Duplicates(record, recs)))

\* float(s or 0), in hundredths, and its IndexError or ValueError
FloatOr0Raises(r, i) == ~HasF(r, i) \/ (F(r, i) # <<>> /\ ~FloatOk(F(r, i)))
FloatOr0(s) == IF s = <<>> THEN 0 ELSE FloatVal(s)

\* the decimal digits of n
RECURSIVE DigitsOf(_)
DigitsOf(n) ==
    LET d == CHOOSE c \in DigitChars : DigitVal(c) = n % 10
    IN  IF n < 10 THEN <<d>> ELSE Append(DigitsOf(n \div 10), d)

\* f"{x:.2f}" of the amount of h hundredths, h >= 0
Format2(h) ==
    DigitsOf(h \div 100) \o <<DOT>> \o DigitsOf((h % 100) \div 10) \o DigitsOf(h % 10)

\* sum(float(r.fields[4] or 0) for r in context.records if r.reg == "H020")
R014ItemsRaise(recs) ==
    \E i \in 1..Len(recs) : recs[i].reg = H020 /\ FloatOr0Raises(recs[i], 4)

R014ItemsSum(recs) ==
    LET h020s == SelectSeq(recs, LAMBDA r : r.reg = H020)
    IN  SumSeq([k \in 1..Len(h020s) |-> FloatOr0(F(h020s[k], 4))])

R014Validate(record, recs) ==
    IF record.reg # H005 THEN Outcome(FALSE, <<>>, recs)
    ELSE IF FloatOr0Raises(record, 1) \/ R014ItemsRaise(recs)
         THEN Outcome(TRUE, <<>>, recs)
    ELSE IF BeyondTolerance(FloatOr0(F(record, 1)), R014ItemsSum(recs))
         THEN Outcome(FALSE,
                      <<Issue(record.line_no, record.reg, "R014", "error",
                              "Valor inventario ({total}) /= soma itens ({items_sum})",
                              <<>>, <<FloatOr0(F(record, 1)), R014ItemsSum(recs)>>,
                              "Ajustar valor total")>>,
                      recs)
         ELSE Outcome(FALSE, <<>>, recs)

\* R014_InventoryValueMismatch.fix: record.fields[1] = f"{items_sum:.2f}"
R014Fix(record, recs) ==
    IF record.reg # H005 THEN Outcome(FALSE, <<>>, recs)
    ELSE IF R014ItemsRaise(recs) \/ ~HasF(record, 1) THEN Outcome(TRUE, <<>>, recs)
    ELSE Outcome(FALSE, <<>>,
                 SetFields(recs, record,
                           [record.fields EXCEPT ![2] = Format2(R014ItemsSum(recs))]))

\* R027_ExcessSpaces.validate: one issue for each field that strip() changes
R027Validate(record, recs) ==
    LET spaced == SelectSeq([i \in 1..Len(record.fields) |-> i - 1],
                            LAMBDA i : F(record, i) # Strip(F(record, i)))
    IN  Outcome(FALSE,
                [k \in 1..Len(spaced) |->
                    Issue(record.line_no, record.reg, "R027", "warn",
                          "Campo {i} com espacos extras", <<>>, <<spaced[k]>>,
                          "Aplicar strip")],
                recs)

\* R027_ExcessSpaces.fix: record.fields = [f.strip() for f in record.fields]
R027Fix(record, recs) ==
    Outcome(FALSE, <<>>, SetFields(recs, record, StripAll(record.fields)))

----------------------------------------------------------------------------
(* More rules of basic_rules_fiscal.py that _get_rules_for_type leaves out: *)
(* R028_NumericFormat, R017_InvalidCFOP, RH990_END_BLOCK_H                 *)

H990 == <<"H", "9", "9", "0">>
D100 == <<"D", "1", "0", "0">>

\* numeric_fields of R028, empty for a reg that is not in it
NumericFields(reg) ==
    CASE reg = C100 -> <<10, 11, 12, 13, 14>>
      [] reg = C170 -> <<6, 7, 8, 9, 10>>
      [] reg = H020 -> <<2, 3, 4>>
      [] OTHER -> <<>>

\* value.replace(".", "").replace(",", "")
CleanValue(value) == Remove(Remove(value, DOT), COMMA)

\* str.isdigit()
IsDigit(s) == Len(s) > 0 /\ AllDigits(s)

\* R028_NumericFormat.validate: IndexError on a record shorter than its
\* numeric fields, else an issue for each that is not digits, "." and ","
R028Validate(record, recs) ==
    LET idxs == NumericFields(record.reg)
        bad == SelectSeq(idxs, LAMBDA i : /\ HasF(record, i)
                                          /\ F(record, i) # <<>>
                                          /\ ~IsDigit(CleanValue(F(record, i))))
        report(found) ==
            [k \in 1..Len(found) |->
                Issue(record.line_no, record.reg, "R028", "error",
                      "Campo {field_idx} com formato invalido: {value}",
                      <<F(record, found[k])>>, <<found[k]>>,
                      "Converter para formato numerico")]
    IN  IF \E k \in 1..Len(idxs) : ~HasF(record, idxs[k])
        THEN Outcome(TRUE, <<>>, recs)
        ELSE Outcome(FALSE, report(bad), recs)

\* the loop of R028_NumericFormat.fix over the numeric fields idxs: a value
\* of digits, "." and "," becomes f"{int(clean_value)}.00"; IndexError at
\* the first field the record lacks, the fields before it rewritten
RECURSIVE R028FixFields(_, _)
R028FixFields(fields, idxs) ==
    LET rewritten(value, clean) ==
            IF value # <<>> /\ IsDigit(clean)
            THEN DigitsOf(DigitsVal(clean)) \o <<DOT, "0", "0">>
            ELSE value
        next(i) ==
            R028FixFields([fields EXCEPT ![i + 1] = rewritten(fields[i + 1],
                                                              CleanValue(fields[i + 1]))],
                          Tail(idxs))
    IN  IF Len(idxs) = 0 THEN [raised |-> FALSE, fields |-> fields]
        ELSE IF idxs[1] >= Len(fields) THEN [raised |-> TRUE, fields |-> fields]
        ELSE next(idxs[1])

R028Fix(record, recs) ==
    LET done(f) == Outcome(f.raised, <<>>, SetFields(recs, record, f.fields))
    IN  done(R028FixFields(record.fields, NumericFields(record.reg)))

\* R017_InvalidCFOP.validate
R017Validate(record, recs) ==
    LET cfop_field == IF record.reg = C100 THEN 11 ELSE 9
        issue(fmt, texts) ==
            Outcome(FALSE,
                    <<Issue(record.line_no, record.reg, "R017", "error", fmt, texts, <<>>,
                            IF fmt = "CFOP {cfop} invalido para entrada"
                            THEN "Ajustar CFOP para entrada"
                            ELSE IF fmt = "CFOP {cfop} invalido para saida"
                            THEN "Ajustar CFOP para saida"
                            ELSE "Verificar estrutura do registro")>>,
                    recs)
        check(tp_op, cfop) ==
            IF tp_op = <<"0">> /\ ~StartsWith(cfop, {"1", "2", "3"})
            THEN issue("CFOP {cfop} invalido para entrada", <<cfop>>)
            ELSE IF tp_op = <<"1">> /\ ~StartsWith(cfop, {"5", "6", "7"})
            THEN issue("CFOP {cfop} invalido para saida", <<cfop>>)
            ELSE Outcome(FALSE, <<>>, recs)
    IN  IF record.reg \notin {C100, C170, D100} THEN Outcome(FALSE, <<>>, recs)
        ELSE IF Len(record.fields) < 3
        THEN issue("Registro {record.reg} incompleto (menos de 3 campos)", <<record.reg>>)
        ELSE IF cfop_field >= Len(record.fields)
        THEN issue("Registro {record.reg} incompleto (campo CFOP ausente)", <<record.reg>>)
        ELSE check(F(record, 2), F(record, cfop_field))

\* R017_InvalidCFOP.fix: the second definition of fix in the class body, the
\* one the class keeps
R017Fix(record, recs) ==
    LET cfop_field == IF record.reg = C100 THEN 11 ELSE 9
        put(digit) ==
            Outcome(FALSE, <<>>,
                    SetFields(recs, record,
                              [record.fields EXCEPT ![cfop_field + 1] =
                                  <<digit>> \o Slice(record.fields[cfop_field + 1], 1,
                                                     Len(record.fields[cfop_field + 1]))]))
    IN  IF record.reg \notin {C100, C170, D100} THEN Outcome(FALSE, <<>>, recs)
        ELSE IF cfop_field >= Len(record.fields) THEN Outcome(FALSE, <<>>, recs)
        ELSE IF F(record, 2) = <<"0">> /\ ~StartsWith(F(record, cfop_field), {"1"})
        THEN put("1")
        ELSE IF F(record, 2) = <<"1">> /\ ~StartsWith(F(record, cfop_field), {"5"})
        THEN put("5")
        ELSE Outcome(FALSE, <<>>, recs)

\* sum(1 for r in context.records if r.reg.startswith("H"))
CountH(recs) == Len(SelectSeq(recs, LAMBDA r : StartsWith(r.reg, {"H"})))

\* RH990_END_BLOCK_H.validate; int() accepts the fields of digits (signs,
\* blanks and "_" are not written in the fields of the files here)
RH990Validate(record, recs) ==
    LET issue(fmt, texts, nums, suggestion) ==
            Outcome(FALSE,
                    <<Issue(record.line_no, record.reg, "RH990", "error", fmt, texts, nums,
                            suggestion)>>,
                    recs)
    IN  IF sped_type \notin {"fiscal", "both"} THEN Outcome(FALSE, <<>>, recs)
        ELSE IF record.reg # H990 THEN Outcome(FALSE, <<>>, recs)
        ELSE IF Len(record.fields) < 2
        THEN issue("Registro H990 com quantidade de campos inferior ao esperado", <<>>, <<>>,
                   "O registro H990 deve ter pelo menos 2 campos")
        ELSE IF ~IsDigit(F(record, 1))
        THEN issue("Formato invalido para QTD_LIN_H: {qtd_lin_h}", <<F(record, 1)>>, <<>>,
                   "O campo QTD_LIN_H deve ser um numero inteiro")
        ELSE IF DigitsVal(F(record, 1)) # CountH(recs)
        THEN issue("Quantidade de linhas do Bloco H ({qtd_lin_h_int}) nao corresponde ao total de registros ({count_h})",
                   <<>>, <<DigitsVal(F(record, 1)), CountH(recs)>>,
                   "O campo QTD_LIN_H deve refletir a quantidade total de registros do Bloco H")
        ELSE Outcome(FALSE, <<>>, recs)

\* RH990_END_BLOCK_H.fix: the count is written into a copy of the fields and
\* a new Record is returned; the record of the context is not touched
RH990Fix(record, recs) == Outcome(FALSE, <<>>, recs)

----------------------------------------------------------------------------
(* SPEDAutoFixer                                                           *)

FiscalRules == <<"R015_DuplicateDocument", "RC170_DuplicateDocument_C170",
                 "RC850_DupicateDocument_C850", "TotalizadorBlocoC_vs_BlocoE",
                 "ConsistenciaC170_vs_C100">>

\* the rules of basic_rules_contribuicoes.py (R101 to R107)
ContribRules == <<"R101_CSTPISInvalido", "R102_CSTCOFINSInvalido",
                  "R103_CreditoPISDivergente", "R104_CreditoCOFINSDivergente",
                  "R105_AliquotaPISInvalida", "R106_AliquotaCOFINSInvalida",
                  "R107_CFOPFormatoInvalido">>

\* SPEDAutoFixer._get_rules_for_type
GetRulesForType(type) == IF type = "fiscal" THEN FiscalRules ELSE <<>>

\* the sped_type values FixSped.post lets through to SPEDAutoFixer
SpedTypes == {"fiscal", "contrib"}

\* rule.id
RuleId(rule) ==
    CASE rule = "R015_DuplicateDocument" -> "R015"
      [] rule = "RC170_DuplicateDocument_C170" -> "RC170"
      [] rule = "RC850_DupicateDocument_C850" -> "RC850"
      [] rule = "TotalizadorBlocoC_vs_BlocoE" -> "R001"
      [] rule = "ConsistenciaC170_vs_C100" -> "R002"
      [] rule = "R007_DuplicateCNPJ" -> "R007"
      [] rule = "R014_InventoryValueMismatch" -> "R014"
      [] rule = "R027_ExcessSpaces" -> "R027"
      [] rule = "R028_NumericFormat" -> "R028"
      [] rule = "R017_InvalidCFOP" -> "R017"
      [] rule = "RH990_END_BLOCK_H" -> "RH990"

\* common_rules of _get_rules_for_type
CommonRules == <<>>

\* rule.auto_fix
AutoFix(rule) ==
    rule \in {"R015_DuplicateDocument", "R007_DuplicateCNPJ",
              "R014_InventoryValueMismatch", "R027_ExcessSpaces",
              "R028_NumericFormat", "R017_InvalidCFOP", "RH990_END_BLOCK_H"}

\* rule.validate(record, context)
Validate(rule, record, recs, heap) ==
    CASE rule = "R015_DuplicateDocument" -> R015Validate(record, recs)
      [] rule = "RC170_DuplicateDocument_C170" -> RC170Validate(record, recs, heap)
      [] rule = "RC850_DupicateDocument_C850" -> RC850Validate(record, recs, heap)
      [] rule = "TotalizadorBlocoC_vs_BlocoE" -> TotalizadorValidate(record, recs)
      [] rule = "ConsistenciaC170_vs_C100" -> ConsistenciaValidate(record, recs)
      [] rule = "R007_DuplicateCNPJ" -> R007Validate(record, recs)
      [] rule = "R014_InventoryValueMismatch" -> R014Validate(record, recs)
      [] rule = "R027_ExcessSpaces" -> R027Validate(record, recs)
      [] rule = "R028_NumericFormat" -> R028Validate(record, recs)
      [] rule = "R017_InvalidCFOP" -> R017Validate(record, recs)
      [] rule = "RH990_END_BLOCK_H" -> RH990Validate(record, recs)

\* rule.fix(record, context); Rule.fix of base.py does nothing
Fix(rule, record, recs, heap) ==
    CASE rule = "R015_DuplicateDocument" -> R015Fix(record, recs)
      [] rule = "RC170_DuplicateDocument_C170" -> RC170Fix(record, recs, heap)
      [] rule = "RC850_DupicateDocument_C850" -> RC850Fix(record, recs, heap)
      [] rule = "R007_DuplicateCNPJ" -> R007Fix(record, recs)
      [] rule = "R014_InventoryValueMismatch" -> R014Fix(record, recs)
      [] rule = "R027_ExcessSpaces" -> R027Fix(record, recs)
      [] rule = "R028_NumericFormat" -> R028Fix(record, recs)
      [] rule = "R017_InvalidCFOP" -> R017Fix(record, recs)
      [] rule = "RH990_END_BLOCK_H" -> RH990Fix(record, recs)
      [] OTHER -> Outcome(FALSE, <<>>, recs)

\* a fix_all that puts the issues of a record before those collected so far
ExtendIssuesInFront(iss, rule_issues) == rule_issues \o iss

\* issues.extend(rule_issues)
ExtendIssues(iss, rule_issues) == iss \o rule_issues

\* the record the list iterator of "for record in self.sped.records" yields
\* at index i: the list is read as it is now, not as it was when the loop began
IterNext(recs, i) == recs[i + 1]
IterDone(recs, i) == i >= Len(recs)

\* one line of get_corrected_content: "|".join(record.fields) + "|"
CorrectedLine(record) == Join(record.fields, PIPE) \o <<PIPE>>

\* SPEDAutoFixer.get_corrected_content
CorrectedContent(recs) == JoinLines([i \in 1..Len(recs) |-> CorrectedLine(recs[i])])

----------------------------------------------------------------------------
(* SpedParser                                                              *)

\* parsers.Record(line_no, reg, fields, raw)
PRecord(line_no, reg, fields, raw) ==
    [line_no |-> line_no, reg |-> reg, fields |-> fields, raw |-> raw]

\* list.index(x) for an x that is in the list, 0-based
ListIndex(parts, x) == (CHOOSE i \in 1..Len(parts) :
                            parts[i] = x /\ \A j \in 1..(i - 1) : parts[j] # x) - 1

\* a parse that keeps only the fields that are not empty
ParseLineDroppingEmpty(i, line) ==
    LET tokens == SelectSeq(Split(Strip(line), PIPE), LAMBDA p : p # <<>>)
    IN  [line_no |-> i, reg |-> IF Len(tokens) > 0 THEN tokens[1] ELSE <<>>,
         fields |-> IF Len(tokens) > 0 THEN Tail(tokens) ELSE <<>>, raw |-> line]

\* the record SpedParser.parse builds from line number i
ParseLine(i, line) ==
    LET parts == Split(Strip(line), PIPE)
        tokens == SelectSeq(parts, LAMBDA p : p # <<>>)
        reg == IF Len(tokens) > 0 THEN tokens[1] ELSE <<>>
        reg_index == ListIndex(parts, reg)
        fields == IF Len(line) > 0 /\ Last(line) = PIPE
                  THEN SubSeq(parts, reg_index + 2, Len(parts) - 1)
                  ELSE SubSeq(parts, reg_index + 2, Len(parts))
    IN  PRecord(i, reg, fields, line)

RECURSIVE ParseLines(_, _)
ParseLines(lines, i) ==
    IF Len(lines) = 0 THEN <<>>
    ELSE (IF Strip(lines[1]) = <<>> THEN <<>> ELSE <<ParseLine(i, lines[1])>>)
           \o ParseLines(Tail(lines), i + 1)

\* SpedParser.parse
SpedParse(text) == ParseLines(TextLines(text), 1)

\* one line of SpedParser.reassemble: "|" + r.reg + "|" + "|".join(r.fields) + "|"
ReassembleLine(r) == <<PIPE>> \o r.reg \o <<PIPE>> \o Join(r.fields, PIPE) \o <<PIPE>>

\* SpedParser.reassemble
SpedReassemble(recs) ==
    JoinLines([i \in 1..Len(recs) |-> ReassembleLine(recs[i])]) \o <<NL>>

----------------------------------------------------------------------------
(* SPEDComparator of sped_comparator.py: compare(ref_data, aud_data), the  *)
(* data of a file being its records grouped by reg                         *)

E200 == <<"E", "2", "0", "0">>

\* the record kinds compare looks up in ref_data and aud_data
ComparedKinds == <<C100, C170, H010, E200>>

\* _parse_float, in hundredths: the digits, ",", "." and "-" of value, ","
\* read as ".", 0.0 when value is empty or float() rejects what is left
ParseFloat(value) ==
    LET float(cleaned) ==
            IF value = <<>> \/ cleaned = <<>> THEN 0
            ELSE IF FloatOk(cleaned) THEN FloatVal(cleaned)
            ELSE IF cleaned[1] = "-" /\ FloatOk(Tail(cleaned))
                 THEN 0 - FloatVal(Tail(cleaned))
            ELSE 0
    IN  float(Replace(SelectSeq(value, LAMBDA c : c \in DigitChars \cup {COMMA, DOT, "-"}),
                      COMMA, DOT))

\* the guard of _create_c100_dict, _create_c170_dict and _find_duplicates
\* (nine fields), and of _create_h010_dict (two)
Keyed(kind, record) == Len(record.fields) >= (IF kind = H010 THEN 2 ELSE 9)

\* the key of a record: CNPJ|Modelo|Serie|Numero|Data of a C100, the same
\* and |Item of a C170, fields[1] of an H010
SemanticKey(kind, record) ==
    IF kind = H010 THEN F(record, 1)
    ELSE Join(<<F(record, 3), F(record, 5), F(record, 6), F(record, 7), F(record, 8)>>
                \o (IF kind = C170 THEN <<F(record, 2)>> ELSE <<>>), PIPE)

\* _create_c100_dict, _create_c170_dict, _create_h010_dict: a dict as the
\* sequence of its items; a key keeps the place of its first record and the
\* value of its last
RECURSIVE CreateDict(_, _)
CreateDict(kind, recs) ==
    IF Len(recs) = 0 THEN <<>>
    ELSE LET set(dict, item) ==
                 IF \E i \in 1..Len(dict) : dict[i].key = item.key
                 THEN [i \in 1..Len(dict) |->
                          IF dict[i].key = item.key THEN item ELSE dict[i]]
                 ELSE Append(dict, item)
             add(dict, record) ==
                 IF ~Keyed(kind, record) THEN dict
                 ELSE set(dict, [key |-> SemanticKey(kind, record), record |-> record])
         IN  add(CreateDict(kind, SubSeq(recs, 1, Len(recs) - 1)), Last(recs))

HasKey(dict, key) == \E i \in 1..Len(dict) : dict[i].key = key

RECURSIVE Concat(_)
Concat(ss) == IF Len(ss) = 0 THEN <<>> ELSE ss[1] \o Concat(Tail(ss))

\* _find_duplicates: for each key, in the order the keys first occur, every
\* record of the key but the first
FindDuplicates(recs) ==
    LET record_list(key) ==
            SelectSeq(recs, LAMBDA r : Keyed(C170, r) /\ SemanticKey(C170, r) = key)
        duplicates(key, list) ==
            [i \in 1..(Len(list) - 1) |->
                [key |-> key, record |-> list[i + 1], count |-> Len(list)]]
        all(keys) ==
            Concat([k \in 1..Len(keys) |->
                      duplicates(keys[k].key, record_list(keys[k].key))])
    IN  all(CreateDict(C170, recs))

\* an entry of self.differences, with the counter of self.summary that is
\* incremented when the entry is appended
Difference(type, record_type, key, field, counter) ==
    [type |-> type, record_type |-> record_type, key |-> key, field |-> field,
     counter |-> counter]

\* the fields compared on a record of both files: index, name, whether a
\* quantity (tolerance 0.001) or a value (tolerance 0.01)
ValueFields(kind) ==
    CASE kind = C100 -> <<<<10, "VL_DOC", FALSE>>, <<11, "VL_ICMS", FALSE>>,
                          <<14, "VL_IPI", FALSE>>, <<15, "VL_PIS", FALSE>>,
                          <<16, "VL_COFINS", FALSE>>>>
      [] kind = C170 -> <<<<4, "QTD", TRUE>>, <<5, "VL_UNIT", FALSE>>, <<12, "VL_ITEM", FALSE>>>>
      [] kind = H010 -> <<<<3, "QTD", TRUE>>, <<4, "VL_UNIT", FALSE>>, <<5, "VL_ITEM", FALSE>>>>

\* the value and quantity differences of the two records of a key; amounts
\* have two decimals at most, so more than 0.001 apart is: not equal
ValueDifferences(kind, key, ref_record, aud_record) ==
    LET apart(quantity, ref_value, aud_value) ==
            IF quantity THEN ref_value # aud_value
            ELSE BeyondTolerance(ref_value, aud_value)
        differs(f) == /\ HasF(ref_record, f[1]) /\ HasF(aud_record, f[1])
                      /\ apart(f[3], ParseFloat(F(ref_record, f[1])),
                               ParseFloat(F(aud_record, f[1])))
        reported(found) ==
            [i \in 1..Len(found) |->
                IF found[i][3]
                THEN Difference("quantity_difference", kind, key, found[i][2],
                                "quantity_differences")
                ELSE Difference("value_difference", kind, key, found[i][2],
                                "value_differences")]
    IN  reported(SelectSeq(ValueFields(kind), differs))

\* data.get(kind, [])
Get(data, kind) == IF kind \in DOMAIN data THEN data[kind] ELSE <<>>

\* the keys that the dicts of both files hold, for some kind
CommonKeys(ref, aud) ==
    LET common(ref_dict, aud_dict) ==
            {ref_dict[i].key :
                i \in {i \in 1..Len(ref_dict) : HasKey(aud_dict, ref_dict[i].key)}}
    IN  UNION {common(CreateDict(kind, Get(ref, kind)), CreateDict(kind, Get(aud, kind))) :
                  kind \in {C100, C170, H010}}

\* _compare_c100_records, _compare_c170_records, _compare_h010_records: the
\* differences they append, in order.  Only C170 looks for duplicates.  The
\* keys of both files are visited in the order of a Python set of strings,
\* which changes with the hash seed of the process: rank lists them in it.
CompareKind(kind, ref_records, aud_records, rank) ==
    LET value(dict, key) == dict[CHOOSE i \in 1..Len(dict) : dict[i].key = key].record
        keyless(items, type, counter) ==
            [i \in 1..Len(items) |-> Difference(type, kind, items[i].key, "", counter)]
        compared(ref_dict, aud_dict, aud_duplicates) ==
            keyless(aud_duplicates, "duplicate_record", "extra_records")
              \o keyless(SelectSeq(ref_dict, LAMBDA it : ~HasKey(aud_dict, it.key)),
                         "missing_record", "missing_records")
              \o keyless(SelectSeq(aud_dict, LAMBDA it : /\ ~HasKey(ref_dict, it.key)
                                                        /\ ~HasKey(aud_duplicates, it.key)),
                         "extra_record", "extra_records")
              \o Concat([i \in 1..Len(rank) |->
                    IF HasKey(ref_dict, rank[i]) /\ HasKey(aud_dict, rank[i])
                    THEN ValueDifferences(kind, rank[i], value(ref_dict, rank[i]),
                                          value(aud_dict, rank[i]))
                    ELSE <<>>])
    IN  compared(CreateDict(kind, ref_records), CreateDict(kind, aud_records),
                 IF kind = C170 THEN FindDuplicates(aud_records) ELSE <<>>)

\* _compare_e200_records: debits and credits of the first E200 of each file
CompareE200(ref_records, aud_records) ==
    LET differs(i) == /\ HasF(ref_records[1], i) /\ HasF(aud_records[1], i)
                      /\ BeyondTolerance(ParseFloat(F(ref_records[1], i)),
                                         ParseFloat(F(aud_records[1], i)))
    IN  IF Len(ref_records) = 0 \/ Len(aud_records) = 0 THEN <<>>
        ELSE (IF differs(2)
              THEN <<Difference("value_difference", E200, <<"TOTAL_DEBITOS">>,
                                "VL_DEBITOS", "value_differences")>> ELSE <<>>)
          \o (IF differs(3)
              THEN <<Difference("value_difference", E200, <<"TOTAL_CREDITOS">>,
                                "VL_CREDITOS", "value_differences")>> ELSE <<>>)

\* the 'total' of _get_block_details, in hundredths: over the kinds of data
\* whose name starts with block, VL_DOC (index 10) of the C100, index 7 of
\* the C170, VL_ITEM (index 5) of the H010, index 2 of the E200
BlockDetailsTotal(data, block) ==
    LET index(kind) == CASE kind = C100 -> 10 [] kind = C170 -> 7
                         [] kind = H010 -> 5 [] kind = E200 -> 2
        counted(kind) == SelectSeq(Get(data, kind), LAMBDA r : HasF(r, index(kind)))
        reg_total(kind) == SumSeq([i \in 1..Len(counted(kind)) |->
                                      ParseFloat(F(counted(kind)[i], index(kind)))])
        kinds == SelectSeq(ComparedKinds, LAMBDA kind : kind[1] = block)
    IN  SumSeq([k \in 1..Len(kinds) |-> reg_total(kinds[k])])

\* _compare_block_totals
CompareBlockTotals(ref, aud) ==
    LET total(block) ==
            IF BeyondTolerance(BlockDetailsTotal(ref, block),
                               BlockDetailsTotal(aud, block))
            THEN <<Difference("value_difference", <<"BLOCK_", block>>, <<"TOTAL">>,
                              "VL_TOTAL", "value_differences")>>
            ELSE <<>>
    IN  total("C") \o total("H")

\* _count_totals: the records of the four kinds in data
CountTotals(data) ==
    SumSeq([k \in 1..Len(ComparedKinds) |-> Len(Get(data, ComparedKinds[k]))])

\* compare: the differences appended, and the summary counted as they are
CompareResult(ref, aud, rank) ==
    LET count(differences, counter) ==
            Len(SelectSeq(differences, LAMBDA d : d.counter = counter))
        compared(differences) ==
            [summary |-> [total_records_ref |-> CountTotals(ref),
                          total_records_aud |-> CountTotals(aud),
                          missing_records |-> count(differences, "missing_records"),
                          extra_records |-> count(differences, "extra_records"),
                          value_differences |-> count(differences, "value_differences"),
                          quantity_differences |-> count(differences, "quantity_differences"),
                          field_differences |-> 0],
             differences |-> differences]
    IN  compared(CompareKind(C100, Get(ref, C100), Get(aud, C100), rank)
                   \o CompareKind(C170, Get(ref, C170), Get(aud, C170), rank)
                   \o CompareKind(H010, Get(ref, H010), Get(aud, H010), rank)
                   \o CompareE200(Get(ref, E200), Get(aud, E200))
                   \o CompareBlockTotals(ref, aud))

NoResult == [summary |-> <<>>, differences |-> <<>>]

ComparatorIdle ==
    /\ ref_data = <<>>
    /\ aud_data = <<>>
    /\ result = NoResult
    /\ previous = NoResult
    /\ cpc = "idle"

IdentifierIdle ==
    /\ irecords = <<>>
    /\ identified = "idle"

\* no record was given to trace_impact, get_impact_summary was not called
NoRecord == NoParent
NoSummary == [total_problemas |-> -1]

ImpactIdle ==
    /\ problematic = NoRecord
    /\ impacts = <<>>
    /\ impact_summary = NoSummary
    /\ spc = "idle"
    /\ held = <<>>

\* compare of the similarity comparator has not returned
NoSimilarity == [matched_count |-> -1]

SimilarityIdle ==
    /\ sim_ref = <<>>
    /\ sim_aud = <<>>
    /\ sim_result = NoSimilarity

\* no rule's fix was called but by fix_all
FixIdle ==
    /\ fixed = <<>>
    /\ prior = <<>>

----------------------------------------------------------------------------
(* ImpactAnalyzer                                                          *)

\* the "impacts" of the dependency graph's entry for a record, empty when
\* the graph has no entry for it; no entry ever has "children"
GraphImpacts(record) ==
    CASE record.reg = C100 -> <<C170, C190, E110>>
      [] record.reg = C170 -> <<C190, E110>>
      [] record.reg = C190 -> <<E110>>
      [] OTHER -> <<>>

\* _get_doc_key: fields[8] of a C100, the key of the parent of a C170, None
\* for another record; raises IndexError on a C100 of fewer than nine
\* fields and AttributeError on a C170 whose parent is None
RECURSIVE GetDocKey(_, _)
GetDocKey(record, heap) ==
    IF record.reg = C100
    THEN (IF HasF(record, 8) THEN [raised |-> FALSE, key |-> F(record, 8)]
          ELSE [raised |-> TRUE, key |-> None])
    ELSE IF record.reg = C170
    THEN (IF record.parent = NoParent THEN [raised |-> TRUE, key |-> None]
          ELSE GetDocKey(Deref(heap, record.parent), heap))
    ELSE [raised |-> FALSE, key |-> None]

\* an _is_related_to_document that takes every C190 as related
IsRelatedToAnyDocument(record, problematic_record, heap) ==
    record.reg \in {C190, E110}

\* _is_related_to_document
IsRelatedToDocument(record, problematic_record, heap) ==
    LET same(doc_key) == ~doc_key.raised /\ F(record, 2) = doc_key.key
    IN  IF record.reg = C190
        THEN HasF(record, 2) /\ same(GetDocKey(problematic_record, heap))
        ELSE record.reg = E110

\* the records the pass over the impacts of current appends to the queue
Impacted(current, problematic_record, recs, seen, heap) ==
    LET regs == GraphImpacts(current)
        reached(reg) ==
            SelectSeq(recs, LAMBDA r :
                /\ r.reg = reg
                /\ r.line_no \notin seen
                /\ (reg \in {C190, E110}
                       => IsRelatedToDocument(r, problematic_record, heap)))
    IN  Concat([k \in 1..Len(regs) |-> reached(regs[k])])

\* the loop of trace_impact: queue and impacts hold records by line_no
RECURSIVE TraceLoop(_, _, _, _, _)
TraceLoop(queue, found, problematic_record, recs, heap) ==
    LET seen(all) == {all[i] : i \in 1..Len(all)}
        step(current, all) ==
            TraceLoop(Tail(queue) \o Impacted(current, problematic_record, recs, seen(all), heap),
                      all, problematic_record, recs, heap)
    IN  IF Len(queue) = 0 THEN found
        ELSE IF queue[1].line_no \in seen(found)
             THEN TraceLoop(Tail(queue), found, problematic_record, recs, heap)
        ELSE step(queue[1], Append(found, queue[1].line_no))

\* trace_impact(problematic_record) on the context's records
TraceImpactOf(problematic_record, recs, heap) ==
    TraceLoop(<<problematic_record>>, <<>>, problematic_record, recs, heap)

----------------------------------------------------------------------------
(* The uploaded files                                                      *)

\* a record's fields: n of them, empty but for those f gives (f is indexed
\* as Python indexes fields, 0 being reg)
Fields(n, f) == [i \in 1..n |-> IF (i - 1) \in DOMAIN f THEN f[i - 1] ELSE <<>>]

\* the line |reg|f1|...|fN| of a record
Framed(fields) == <<PIPE>> \o Join(fields, PIPE) \o <<PIPE>>

K1 == <<"K", "1">>
A10 == <<"A", "1", "0">>

\* the lines an uploaded file is made of
InputLines == <<
    \* a C100 with access key K1 and VL_MERC 10
    Framed(Fields(16, 0 :> C100 @@ 8 :> K1 @@ 15 :> <<"1", "0">>)),
    \* a C100 cut after its second field
    Framed(Fields(2, 0 :> C100 @@ 1 :> <<"1">>)),
    \* a C170 of item A10 worth 5,00
    Framed(Fields(7, 0 :> C170 @@ 1 :> <<"1">> @@ 2 :> A10 @@ 6 :> <<"5", ",", "0", "0">>)),
    \* a C190 of document K1 with VL_ICMS 5
    Framed(Fields(7, 0 :> C190 @@ 2 :> K1 @@ 6 :> <<"5">>)),
    \* an E110 with debits 5 and credits 0
    Framed(Fields(6, 0 :> E110 @@ 1 :> <<"5">> @@ 5 :> <<"0">>)),
    \* an E110 whose value fields are empty
    Framed(Fields(6, 0 :> E110)),
    \* a C800 and a C850 of it
    Framed(Fields(6, 0 :> C800 @@ 2 :> <<"0", "0">> @@ 3 :> <<"1">> @@ 4 :> <<"2">> @@ 5 :> <<"3">>)),
    Framed(Fields(4, 0 :> C850 @@ 1 :> <<"0", "0">> @@ 2 :> <<"5">> @@ 3 :> <<"1", "8">>)),
    \* a blank line
    <<>>
>>

\* most lines of an uploaded file
MaxLines == 3

\* the file made of the lines ls, each ended by "\n"
RECURSIVE FileText(_)
FileText(ls) == IF Len(ls) = 0 THEN <<>> ELSE ls[1] \o <<NL>> \o FileText(Tail(ls))

Inputs ==
    { FileText([i \in 1..Len(c) |-> InputLines[c[i]]]) :
        c \in UNION { [1..n -> 1..Len(InputLines)] : n \in 0..MaxLines } }

----------------------------------------------------------------------------
(* The pipeline: SPEDAutoFixer(file), fix_all(), get_corrected_content(),  *)
(* then the same on the text it produced                                   *)

ParserIdle ==
    /\ ptext = <<>>
    /\ precs = <<>>
    /\ pout = <<>>
    /\ ppc = "idle"

\* SPEDAutoFixer.__init__ on text, and fix_all up to its first iteration
Construct(text, type) ==
    /\ input' = text
    /\ sped_type' = type
    /\ records' = LoadSpd(text)
    /\ loaded' = LoadSpd(text)
    /\ rules' = GetRulesForType(type)
    /\ issues' = <<>>
    /\ ri' = 1
    /\ idx' = 0
    /\ snapshot' = LoadSpd(text)
    /\ visited' = <<>>
    /\ pc' = "fixing"

Init ==
    /\ input \in Inputs
    /\ sped_type \in SpedTypes
    /\ records = LoadSpd(input)
    /\ loaded = LoadSpd(input)
    /\ rules = GetRulesForType(sped_type)
    /\ issues = <<>>
    /\ ri = 1
    /\ idx = 0
    /\ snapshot = LoadSpd(input)
    /\ visited = <<>>
    /\ pc = "fixing"
    /\ run = 1
    /\ output = <<>>
    /\ ParserIdle
    /\ ComparatorIdle
    /\ IdentifierIdle
    /\ ImpactIdle
    /\ SimilarityIdle
    /\ FixIdle

\* one iteration of fix_all's inner loop: validate the record, collect its
\* issues, fix it when the rule repairs automatically; an exception of the
\* rule is re-raised and ends fix_all
Visit ==
    /\ pc = "fixing"
    /\ ri <= Len(rules)
    /\ ~IterDone(records, idx)
    /\ LET rule == rules[ri]
           record == IterNext(records, idx)
           v == Validate(rule, record, records, loaded)
           fixes == ~v.raised /\ Len(v.issues) > 0 /\ AutoFix(rule)
           f == IF fixes THEN Fix(rule, record, v.records, loaded) ELSE v
       IN  /\ records' = f.records
           /\ issues' = IF v.raised THEN issues ELSE ExtendIssues(issues, v.issues)
           /\ pc' = IF v.raised \/ f.raised THEN "raised" ELSE "fixing"
           /\ visited' = Append(visited, record.line_no)
    /\ idx' = idx + 1
    /\ UNCHANGED <<input, sped_type, rules, ri, run, output, loaded, snapshot>>
    /\ UNCHANGED <<parserVars, comparatorVars, identifierVars,
                 impactVars, similarityVars, fixVars>>

\* the inner loop ends: the iterator has reached the end of the list
NextRule ==
    /\ pc = "fixing"
    /\ ri <= Len(rules)
    /\ IterDone(records, idx)
    /\ ri' = ri + 1
    /\ idx' = 0
    /\ snapshot' = records
    /\ visited' = <<>>
    /\ UNCHANGED <<input, sped_type, rules, records, issues, pc, run, output, loaded>>
    /\ UNCHANGED <<parserVars, comparatorVars, identifierVars,
                 impactVars, similarityVars, fixVars>>

\* the outer loop ends: fix_all returns issues
FixAllReturn ==
    /\ pc = "fixing"
    /\ ri > Len(rules)
    /\ pc' = "fixed"
    /\ UNCHANGED <<input, sped_type, rules, records, issues, ri, idx, run, output,
                   loaded, snapshot, visited>>
    /\ UNCHANGED <<parserVars, comparatorVars, identifierVars,
                 impactVars, similarityVars, fixVars>>

\* FixSped.post writes get_corrected_content() as the corrected file
GetCorrectedContent ==
    /\ pc = "fixed"
    /\ output' = Append(output, CorrectedContent(records))
    /\ pc' = "emitted"
    /\ UNCHANGED <<input, sped_type, rules, records, issues, ri, idx, run,
                   loaded, snapshot, visited>>
    /\ UNCHANGED <<parserVars, comparatorVars, identifierVars,
                 impactVars, similarityVars, fixVars>>

\* the corrected file is uploaded again, with the same sped_type
Rerun ==
    /\ pc = "emitted"
    /\ run = 1
    /\ run' = 2
    /\ Construct(output[1], sped_type)
    /\ UNCHANGED output
    /\ UNCHANGED <<parserVars, comparatorVars, identifierVars,
                 impactVars, similarityVars, fixVars>>

Next ==
    \/ Visit
    \/ NextRule
    \/ FixAllReturn
    \/ GetCorrectedContent
    \/ Rerun

Spec == Init /\ [][Next]_vars

----------------------------------------------------------------------------
(* SpedParser on a text: parse, then reassemble                            *)

X == <<"X">>

\* the lines a text given to SpedParser is made of
ParserLines == <<
    Framed(<<C100, X>>),
    Framed(<<C190, <<>>, K1>>),
    Framed(<<E110, <<"5", ",", "0">>, <<>>>>),
    \* a field with blanks inside
    Framed(<<C170, <<SP, "X", SP>>>>),
    \* no data field
    Framed(<<C100>>),
    \* no leading "|", no trailing "|"
    Join(<<C100, X, <<>>>>, PIPE),
    Join(<<<<>>, C100, X>>, PIPE),
    \* blanks around the line
    <<SP>> \o Framed(<<C100, X>>) \o <<SP>>,
    \* an empty first field
    Framed(<<<<>>, X>>),
    \* no "|" at all, a lone "|", a blank line
    X,
    <<PIPE>>,
    <<>>
>>

\* most lines of a text given to SpedParser
MaxParserLines == 3

\* the texts made of up to MaxParserLines lines, with and without a final "\n"
ParserInputs ==
    LET bodies == { JoinLines([i \in 1..Len(c) |-> ParserLines[c[i]]]) :
                      c \in UNION { [1..n -> 1..Len(ParserLines)] : n \in 0..MaxParserLines } }
    IN  bodies \cup { b \o <<NL>> : b \in bodies }

\* no SPEDAutoFixer exists while SpedParser is exercised
EngineIdle ==
    /\ input = <<>>
    /\ sped_type = "fiscal"
    /\ rules = <<>>
    /\ records = <<>>
    /\ issues = <<>>
    /\ ri = 1
    /\ idx = 0
    /\ pc = "idle"
    /\ run = 1
    /\ output = <<>>
    /\ loaded = <<>>
    /\ snapshot = <<>>
    /\ visited = <<>>

InitParser ==
    /\ ptext \in ParserInputs
    /\ precs = <<>>
    /\ pout = <<>>
    /\ ppc = "text"
    /\ EngineIdle
    /\ ComparatorIdle
    /\ IdentifierIdle
    /\ ImpactIdle
    /\ SimilarityIdle
    /\ FixIdle

Parse ==
    /\ ppc = "text"
    /\ precs' = SpedParse(ptext)
    /\ ppc' = "parsed"
    /\ UNCHANGED <<ptext, pout>>
    /\ UNCHANGED <<engineVars, comparatorVars, identifierVars,
                 impactVars, similarityVars, fixVars>>

Reassemble ==
    /\ ppc = "parsed"
    /\ pout' = SpedReassemble(precs)
    /\ ppc' = "reassembled"
    /\ UNCHANGED <<ptext, precs>>
    /\ UNCHANGED <<engineVars, comparatorVars, identifierVars,
                 impactVars, similarityVars, fixVars>>

NextParser == Parse \/ Reassemble

SpecParser == InitParser /\ [][NextParser]_vars

----------------------------------------------------------------------------
(* fix_all over one rule that _get_rules_for_type leaves out: the loop of  *)
(* fix_all with self.rules holding that rule alone                         *)

\* the lines of the files these rules are run on
RuleLines == <<
    \* three 0150 of CNPJ 11 (one written 1.1), one of CNPJ 22, one cut short
    Framed(<<R0150, <<"1", "1">>>>),
    Framed(<<R0150, <<"1", DOT, "1">>>>),
    Framed(<<R0150, <<"2", "2">>>>),
    Framed(<<R0150>>),
    \* an H005 with VL_INV 500.00, two H010 with VL_ITEM 100.00 and 150.00
    Framed(Fields(2, 0 :> H005 @@ 1 :> <<"5", "0", "0", DOT, "0", "0">>)),
    Framed(Fields(6, 0 :> H010 @@ 5 :> <<"1", "0", "0", DOT, "0", "0">>)),
    Framed(Fields(6, 0 :> H010 @@ 5 :> <<"1", "5", "0", DOT, "0", "0">>)),
    \* an H020 with 250.00 at index 4
    Framed(Fields(5, 0 :> H020 @@ 4 :> <<"2", "5", "0", DOT, "0", "0">>)),
    \* a record with blanks around two of its fields
    Framed(<<C100, <<SP, "X", SP>>, <<SP, "X">>>>)
>>

\* most lines of a file a rule is run on
MaxRuleLines == 3

RuleInputs ==
    UNION {{FileText([i \in 1..Len(c) |-> RuleLines[c[i]]]) :
                c \in [1..n -> 1..Len(RuleLines)]} : n \in 0..MaxRuleLines}

LeftOutRules == {"R007_DuplicateCNPJ", "R014_InventoryValueMismatch", "R027_ExcessSpaces"}

InitRules ==
    /\ input \in RuleInputs
    /\ sped_type = "fiscal"
    /\ records = LoadSpd(input)
    /\ loaded = LoadSpd(input)
    /\ rules \in {<<rule>> : rule \in LeftOutRules}
    /\ issues = <<>>
    /\ ri = 1
    /\ idx = 0
    /\ snapshot = LoadSpd(input)
    /\ visited = <<>>
    /\ pc = "fixing"
    /\ run = 1
    /\ output = <<>>
    /\ ParserIdle
    /\ ComparatorIdle
    /\ IdentifierIdle
    /\ ImpactIdle
    /\ SimilarityIdle
    /\ FixIdle

NextRules ==
    \/ Visit
    \/ NextRule
    \/ FixAllReturn

SpecRules == InitRules /\ [][NextRules]_vars

----------------------------------------------------------------------------
(* SPEDComparator on two files: compare(ref_data, aud_data), then the same *)
(* instance on the files swapped                                           *)

\* the records the compared files are made of
CmpRecords == <<
    \* C100 of document 7 with VL_DOC 10 and with VL_DOC 11,50; of document 8
    Fields(11, 0 :> C100 @@ 7 :> <<"7">> @@ 10 :> <<"1", "0">>),
    Fields(11, 0 :> C100 @@ 7 :> <<"7">> @@ 10 :> <<"1", "1", COMMA, "5", "0">>),
    Fields(11, 0 :> C100 @@ 7 :> <<"8">> @@ 10 :> <<"1", "0">>),
    \* C170, item 1 of document 7, with VL_ITEM 5 and with VL_ITEM 9; of document 8
    Fields(13, 0 :> C170 @@ 2 :> <<"1">> @@ 7 :> <<"7">> @@ 12 :> <<"5">>),
    Fields(13, 0 :> C170 @@ 2 :> <<"1">> @@ 7 :> <<"7">> @@ 12 :> <<"9">>),
    Fields(13, 0 :> C170 @@ 2 :> <<"1">> @@ 7 :> <<"8">> @@ 12 :> <<"5">>),
    \* H010 of item A with VL_ITEM 5 and with VL_ITEM 6,5
    Fields(6, 0 :> H010 @@ 1 :> <<"A">> @@ 3 :> <<"1">> @@ 5 :> <<"5">>),
    Fields(6, 0 :> H010 @@ 1 :> <<"A">> @@ 3 :> <<"2">> @@ 5 :> <<"6", COMMA, "5">>),
    \* E200 with debits 5 and with debits 7
    Fields(4, 0 :> E200 @@ 2 :> <<"5">> @@ 3 :> <<"0">>),
    Fields(4, 0 :> E200 @@ 2 :> <<"7">> @@ 3 :> <<"0">>)
>>

\* most records of a compared file
MaxCmpRecords == 2

\* a file's records grouped by reg, each with its place in the file as line_no
GroupByReg(c) ==
    LET recs == [i \in 1..Len(c) |-> Record(i, CmpRecords[c[i]][1], CmpRecords[c[i]])]
    IN  [kind \in {recs[i].reg : i \in 1..Len(recs)} |->
            SelectSeq(recs, LAMBDA r : r.reg = kind)]

CmpData ==
    UNION {{GroupByReg(c) : c \in [1..n -> 1..Len(CmpRecords)]} : n \in 0..MaxCmpRecords}

\* the orders in which a set of keys can be visited
Orders(S) ==
    {rank \in [1..Cardinality(S) -> S] :
        \A i \in 1..Cardinality(S) : \A k \in 1..Cardinality(S) :
            rank[i] = rank[k] => i = k}

InitCompare ==
    /\ ref_data \in CmpData
    /\ aud_data \in CmpData
    /\ result = NoResult
    /\ previous = NoResult
    /\ cpc = "ready"
    /\ EngineIdle
    /\ ParserIdle
    /\ IdentifierIdle
    /\ ImpactIdle
    /\ SimilarityIdle
    /\ FixIdle

\* comparator.compare(ref_data, aud_data)
Compare ==
    /\ cpc = "ready"
    /\ \E rank \in Orders(CommonKeys(ref_data, aud_data)) :
          result' = CompareResult(ref_data, aud_data, rank)
    /\ cpc' = "compared"
    /\ UNCHANGED <<ref_data, aud_data, previous>>
    /\ UNCHANGED <<engineVars, parserVars, identifierVars,
                 impactVars, similarityVars, fixVars>>

\* the same comparator on the two files swapped: compare(aud_data, ref_data)
CompareSwapped ==
    /\ cpc = "compared"
    /\ previous' = result
    /\ ref_data' = aud_data
    /\ aud_data' = ref_data
    /\ \E rank \in Orders(CommonKeys(aud_data, ref_data)) :
          result' = CompareResult(aud_data, ref_data, rank)
    /\ cpc' = "swapped"
    /\ UNCHANGED <<engineVars, parserVars, identifierVars,
                 impactVars, similarityVars, fixVars>>

NextCompare == Compare \/ CompareSwapped

SpecCompare == InitCompare /\ [][NextCompare]_vars

(***************************************************************************)
(* SPEDTypeIdentifier: a unit specification of identify_type on the        *)
(* records it is constructed with                                          *)
(***************************************************************************)

\* the CST values identify_type accepts in a fiscal C170: "", 50..56, 60..67,
\* 70..75
FiscalCst ==
    {<<>>}
        \cup {<<"5", d>> : d \in {"0", "1", "2", "3", "4", "5", "6"}}
        \cup {<<"6", d>> : d \in {"0", "1", "2", "3", "4", "5", "6", "7"}}
        \cup {<<"7", d>> : d \in {"0", "1", "2", "3", "4", "5"}}

\* the loop over the C170 records, left at the first CST out of the range
HasValidContribCst(recs) ==
    \E i \in 1..Len(recs) :
        /\ recs[i].reg = C170
        /\ Len(recs[i].fields) > 32
        /\ LET cst_pis    == IF Len(recs[i].fields) > 29 THEN F(recs[i], 29) ELSE <<>>
               cst_cofins == IF Len(recs[i].fields) > 32 THEN F(recs[i], 32) ELSE <<>>
           IN  \/ cst_pis # <<>> /\ cst_pis \notin FiscalCst
               \/ cst_cofins # <<>> /\ cst_cofins \notin FiscalCst

IdentifyType(recs) ==
    LET AnyReg(regs) == \E i \in 1..Len(recs) : recs[i].reg \in regs
        has_fiscal_blocks ==
            \E i \in 1..Len(recs) : StartsWith(recs[i].reg, {"E", "H"})
        has_contrib_blocks ==
            \E i \in 1..Len(recs) : StartsWith(recs[i].reg, {"M", "1"})
        has_pis_cofins_blocks ==
            AnyReg({<<"M", a, b, "0">> : a \in {"1", "2", "5", "6"}, b \in {"0"}}
                    \cup {<<"M", a, "1", "0">> : a \in {"1", "2", "5", "6"}})
        has_contrib_opening ==
            AnyReg({<<"1", "0", "0", "1">>, <<"1", "0", "1", "0">>, <<"9", "0", "0", "1">>})
        has_valid_contrib_cst == HasValidContribCst(recs)
        contrib == \/ has_contrib_blocks
                   \/ has_pis_cofins_blocks
                   \/ has_contrib_opening
                   \/ has_valid_contrib_cst
    IN  IF ~contrib /\ has_fiscal_blocks THEN "fiscal"
        ELSE IF has_fiscal_blocks /\ contrib THEN "both"
        ELSE IF contrib THEN "contrib"
        ELSE "unknown"

\* the records an identifier is constructed with are drawn from these
IdRecords == <<
    Fields(1, 0 :> E110),
    Fields(1, 0 :> H010),
    Fields(1, 0 :> C100),
    Fields(1, 0 :> <<"M", "9", "9", "0">>),
    Fields(1, 0 :> <<"M", "2", "0", "0">>),
    Fields(1, 0 :> <<"9", "0", "0", "1">>),
    Fields(1, 0 :> <<"1", "9", "9", "0">>),
    \* C170 of 33 fields: both CST in the range; PIS CST 01; COFINS CST 01
    Fields(33, 0 :> C170 @@ 29 :> <<"5", "0">> @@ 32 :> <<"7", "5">>),
    Fields(33, 0 :> C170 @@ 29 :> <<"0", "1">>),
    Fields(33, 0 :> C170 @@ 32 :> <<"0", "1">>),
    \* C170 of 30 fields with PIS CST 01, of 32 fields with PIS CST 01
    Fields(30, 0 :> C170 @@ 29 :> <<"0", "1">>),
    Fields(32, 0 :> C170 @@ 29 :> <<"0", "1">>)
>>

\* most records of an identified file
MaxIdRecords == 3

IdInputs ==
    UNION {{[i \in 1..n |-> Record(i, IdRecords[c[i]][1], IdRecords[c[i]])] :
                c \in [1..n -> 1..Len(IdRecords)]} : n \in 0..MaxIdRecords}

\* SPEDTypeIdentifier(records)
InitIdentify ==
    /\ irecords \in IdInputs
    /\ identified = "idle"
    /\ EngineIdle
    /\ ParserIdle
    /\ ComparatorIdle
    /\ ImpactIdle
    /\ SimilarityIdle
    /\ FixIdle

\* identifier.identify_type()
Identify ==
    /\ identified = "idle"
    /\ identified' = IdentifyType(irecords)
    /\ UNCHANGED irecords
    /\ UNCHANGED <<engineVars, parserVars, comparatorVars,
                 impactVars, similarityVars, fixVars>>

NextIdentify == Identify

SpecIdentify == InitIdentify /\ [][NextIdentify]_vars

----------------------------------------------------------------------------
(* trace_impact of the engine's ImpactAnalyzer, on a record of the context, *)
(* at any point of fix_all                                                 *)

K2 == <<"K", "2">>

\* the lines of the files whose impacts are traced
ImpactLines == <<
    \* a C100 with access key K1, one with access key K2, one cut short
    Framed(Fields(16, 0 :> C100 @@ 8 :> K1 @@ 15 :> <<"1", "0">>)),
    Framed(Fields(16, 0 :> C100 @@ 8 :> K2 @@ 15 :> <<"1", "0">>)),
    Framed(Fields(2, 0 :> C100 @@ 1 :> <<"1">>)),
    \* a C170 of item A10 worth 5,00
    Framed(Fields(7, 0 :> C170 @@ 1 :> <<"1">> @@ 2 :> A10 @@ 6 :> <<"5", ",", "0", "0">>)),
    \* a C190 of document K1, one of document K2, one cut short
    Framed(Fields(7, 0 :> C190 @@ 2 :> K1 @@ 6 :> <<"5">>)),
    Framed(Fields(7, 0 :> C190 @@ 2 :> K2 @@ 6 :> <<"5">>)),
    Framed(Fields(2, 0 :> C190)),
    \* an E110 with debits 5 and credits 0
    Framed(Fields(6, 0 :> E110 @@ 1 :> <<"5">> @@ 5 :> <<"0">>)),
    \* an H005 and an H010
    Framed(Fields(2, 0 :> H005 @@ 1 :> <<"5">>)),
    Framed(Fields(6, 0 :> H010 @@ 5 :> <<"5">>))
>>

\* most lines of a file whose impacts are traced
MaxImpactLines == 3

ImpactInputs ==
    UNION {{FileText([i \in 1..Len(c) |-> ImpactLines[c[i]]]) :
                c \in [1..n -> 1..Len(ImpactLines)]} : n \in 0..MaxImpactLines}

InitImpact ==
    /\ input \in ImpactInputs
    /\ sped_type = "fiscal"
    /\ records = LoadSpd(input)
    /\ loaded = LoadSpd(input)
    /\ rules = GetRulesForType(sped_type)
    /\ issues = <<>>
    /\ ri = 1
    /\ idx = 0
    /\ snapshot = LoadSpd(input)
    /\ visited = <<>>
    /\ pc = "fixing"
    /\ run = 1
    /\ output = <<>>
    /\ ParserIdle
    /\ ComparatorIdle
    /\ IdentifierIdle
    /\ ImpactIdle
    /\ SimilarityIdle
    /\ FixIdle

\* impact_analyzer.trace_impact(record) for a record of the context
TraceImpact ==
    /\ pc \in {"fixing", "fixed"}
    /\ problematic = NoRecord
    /\ \E i \in 1..Len(records) :
          /\ problematic' = records[i].line_no
          /\ impacts' = TraceImpactOf(records[i], records, loaded)
    /\ UNCHANGED <<impact_summary, spc, held>>
    /\ UNCHANGED <<engineVars, parserVars, comparatorVars, identifierVars,
                   similarityVars, fixVars>>

\* fix_all goes on until an impact was traced: trace_impact changes nothing
\* that fix_all reads
FixAllUntraced ==
    /\ problematic = NoRecord
    /\ Visit \/ NextRule \/ FixAllReturn

NextImpact ==
    \/ FixAllUntraced
    \/ TraceImpact

SpecImpact == InitImpact /\ [][NextImpact]_vars

----------------------------------------------------------------------------
(* validate and fix of one more left-out rule: by fix_all with self.rules  *)
(* holding that rule alone, or fix called on a record of the context       *)

\* the lines of the files these rules are run on
FixLines == <<
    \* C100, entry (tp_op 0) with CFOP 6102, VL_DOC 10,50
    Framed(Fields(15, 0 :> C100 @@ 2 :> <<"0">> @@ 10 :> <<"1", "0", COMMA, "5", "0">>
                      @@ 11 :> <<"6", "1", "0", "2">>)),
    \* C100, exit (tp_op 1) with CFOP 2102, VL_DOC 1x
    Framed(Fields(15, 0 :> C100 @@ 2 :> <<"1">> @@ 10 :> <<"1", "x">>
                      @@ 11 :> <<"2", "1", "0", "2">>)),
    \* C100, entry with CFOP 1102, VL_DOC 5
    Framed(Fields(15, 0 :> C100 @@ 2 :> <<"0">> @@ 10 :> <<"5">>
                      @@ 11 :> <<"1", "1", "0", "2">>)),
    \* C100 of twelve fields, entry with CFOP 7102
    Framed(Fields(12, 0 :> C100 @@ 2 :> <<"0">> @@ 11 :> <<"7", "1", "0", "2">>)),
    \* C170, tp_op 1 with 3102 at index 9, 1.000,00 at index 6
    Framed(Fields(11, 0 :> C170 @@ 2 :> <<"1">> @@ 6 :> <<"1", DOT, "0", "0", "0", COMMA, "0", "0">>
                      @@ 9 :> <<"3", "1", "0", "2">>)),
    \* H020 with 7.00 at index 2 and x at index 4
    Framed(Fields(5, 0 :> H020 @@ 2 :> <<"7", DOT, "0", "0">> @@ 4 :> <<"x">>)),
    \* H990 with QTD_LIN_H 1, 2, x and without it
    Framed(<<H990, <<"1">>>>),
    Framed(<<H990, <<"2">>>>),
    Framed(<<H990, <<"x">>>>),
    Framed(<<H990>>),
    \* an H005
    Framed(<<H005, <<"5">>>>)
>>

\* most lines of a file a rule is run on
MaxFixLines == 2

\* most calls of fix on a record
MaxFixCalls == 2

FixInputs ==
    UNION {{FileText([i \in 1..Len(c) |-> FixLines[c[i]]]) :
                c \in [1..n -> 1..Len(FixLines)]} : n \in 0..MaxFixLines}

FixedRules == {"R028_NumericFormat", "R017_InvalidCFOP", "RH990_END_BLOCK_H"}

InitFix ==
    /\ input \in FixInputs
    /\ sped_type = "fiscal"
    /\ records = LoadSpd(input)
    /\ loaded = LoadSpd(input)
    /\ rules \in {<<rule>> : rule \in FixedRules}
    /\ issues = <<>>
    /\ ri = 1
    /\ idx = 0
    /\ snapshot = LoadSpd(input)
    /\ visited = <<>>
    /\ pc = "fixing"
    /\ run = 1
    /\ output = <<>>
    /\ ParserIdle
    /\ ComparatorIdle
    /\ IdentifierIdle
    /\ ImpactIdle
    /\ SimilarityIdle
    /\ FixIdle

\* rule.fix(record, context) on a record of the context, before fix_all has
\* visited any, and again on the same record
FixRecord ==
    /\ pc = "fixing"
    /\ ri = 1
    /\ idx = 0
    /\ Len(fixed) < MaxFixCalls
    /\ \E i \in 1..Len(records) :
          /\ fixed # <<>> => Last(fixed) = records[i].line_no
          /\ LET f == Fix(rules[1], records[i], records, loaded)
             IN  /\ records' = f.records
                 /\ pc' = IF f.raised THEN "raised" ELSE pc
          /\ fixed' = Append(fixed, records[i].line_no)
    /\ prior' = records
    /\ UNCHANGED <<input, sped_type, rules, issues, ri, idx, run, output, loaded,
                   snapshot, visited>>
    /\ UNCHANGED <<parserVars, comparatorVars, identifierVars, impactVars, similarityVars>>

\* fix_all, when fix was not called from outside it
FixAllAlone ==
    /\ fixed = <<>>
    /\ Visit \/ NextRule \/ FixAllReturn

NextFix ==
    \/ FixAllAlone
    \/ FixRecord

SpecFix == InitFix /\ [][NextFix]_vars

----------------------------------------------------------------------------
(* The similarity SPEDComparator of basic_rules_fiscal.py, which the       *)
(* FixSped view runs on the records of two loaded files                    *)

\* the length of the common run of a and b that ends at a[i] and b[j]
\* (0-based) and stays inside the window that starts at alo and blo:
\* j2len of find_longest_match
RECURSIVE RunEnding(_, _, _, _, _, _)
RunEnding(a, b, i, j, alo, blo) ==
    IF i < alo \/ j < blo THEN 0
    ELSE IF a[i + 1] # b[j + 1] THEN 0
    ELSE 1 + RunEnding(a, b, i - 1, j - 1, alo, blo)

\* SequenceMatcher.find_longest_match(alo, ahi, blo, bhi) without junk (the
\* automatic junk heuristic needs a b of 200 characters or more): the
\* longest common block, of those the one that starts earliest in a, of
\* those the one that starts earliest in b
FindLongestMatch(a, b, alo, ahi, blo, bhi) ==
    LET pairs == {p \in (alo..(ahi - 1)) \X (blo..(bhi - 1)) : a[p[1] + 1] = b[p[2] + 1]}
        first(ends, bestsize) ==
            LET e == CHOOSE p \in ends :
                        \A q \in ends : \/ p[1] < q[1]
                                        \/ p[1] = q[1] /\ p[2] <= q[2]
            IN  [i |-> e[1] - bestsize + 1, j |-> e[2] - bestsize + 1, size |-> bestsize]
        longest(j2len, bestsize) ==
            first({p \in pairs : j2len[p] = bestsize}, bestsize)
        pick(j2len) == longest(j2len, Max({j2len[q] : q \in pairs}))
    IN  IF pairs = {} THEN [i |-> alo, j |-> blo, size |-> 0]
        ELSE pick([p \in pairs |-> RunEnding(a, b, p[1], p[2], alo, blo)])

\* the characters in the blocks of SequenceMatcher.get_matching_blocks():
\* the longest match, then the same to its left and to its right
RECURSIVE Matches(_, _, _, _, _, _)
Matches(a, b, alo, ahi, blo, bhi) ==
    LET rest(x) ==
            IF x.size = 0 THEN 0
            ELSE x.size
                 + (IF alo < x.i /\ blo < x.j
                    THEN Matches(a, b, alo, x.i, blo, x.j) ELSE 0)
                 + (IF x.i + x.size < ahi /\ x.j + x.size < bhi
                    THEN Matches(a, b, x.i + x.size, ahi, x.j + x.size, bhi) ELSE 0)
    IN  rest(FindLongestMatch(a, b, alo, ahi, blo, bhi))

\* SequenceMatcher(None, a, b).ratio(): 2.0 * matches / length, 1.0 for two
\* empty strings, as the fraction num / den
Ratio(a, b) ==
    IF Len(a) + Len(b) = 0 THEN [num |-> 1, den |-> 1]
    ELSE [num |-> 2 * Matches(a, b, 0, Len(a), 0, Len(b)), den |-> Len(a) + Len(b)]

\* SPEDComparator.record_similarity
RecordSimilarity(rec_a, rec_b) ==
    IF rec_a.reg # rec_b.reg THEN [num |-> 0, den |-> 1]
    ELSE Ratio(Join(rec_a.fields, PIPE), Join(rec_b.fields, PIPE))

\* x < y for two fractions
Below(x, y) == x.num * y.den < y.num * x.den

\* max(candidates, key=...): the first of the candidates no other exceeds
BestMatch(rec_a, candidates) ==
    LET pick(sims) ==
            candidates[CHOOSE k \in 1..Len(candidates) :
                          /\ \A m \in 1..Len(candidates) : ~Below(sims[k], sims[m])
                          /\ \A m \in 1..(k - 1) : Below(sims[m], sims[k])]
    IN  pick([k \in 1..Len(candidates) |-> RecordSimilarity(rec_a, candidates[k])])

\* the threshold 0.95 of compare
Threshold == [num |-> 95, den |-> 100]

\* one turn of the loop of SPEDComparator.compare: what rec_a adds to
\* divergences, nothing when it is matched
Classify(rec_a, records_b) ==
    LET candidates == SelectSeq(records_b, LAMBDA r : r.reg = rec_a.reg)
        judge(best_match) ==
            LET verdict(sim) ==
                    IF Below(sim, Threshold)
                    THEN <<[line_no |-> rec_a.line_no, reg |-> rec_a.reg,
                            found |-> TRUE, best_line_no |-> best_match.line_no,
                            sim |-> sim]>>
                    ELSE <<>>
            IN  verdict(RecordSimilarity(rec_a, best_match))
    IN  IF candidates = <<>>
        THEN <<[line_no |-> rec_a.line_no, reg |-> rec_a.reg,
                found |-> FALSE, best_line_no |-> NoRecord,
                sim |-> [num |-> 0, den |-> 1]]>>
        ELSE judge(BestMatch(rec_a, candidates))

RECURSIVE Divergences(_, _)
Divergences(records_a, records_b) ==
    IF records_a = <<>> THEN <<>>
    ELSE Classify(records_a[1], records_b) \o Divergences(Tail(records_a), records_b)

\* SPEDComparator.compare: ZeroDivisionError when records_a is empty, else
\* matched_count / total_records * 100 and the divergences
SimilarityCompare(records_a, records_b) ==
    LET ret(divergences) ==
            IF Len(records_a) = 0
            THEN [raised |-> TRUE, matched_count |-> 0,
                  similarity_percent |-> [num |-> 0, den |-> 1],
                  divergences |-> divergences]
            ELSE [raised |-> FALSE,
                  matched_count |-> Len(records_a) - Len(divergences),
                  similarity_percent |->
                      [num |-> (Len(records_a) - Len(divergences)) * 100,
                       den |-> Len(records_a)],
                  divergences |-> divergences]
    IN  ret(Divergences(records_a, records_b))

\* the fields of the records of the compared files: 20 characters when
\* joined, the same with the last digit changed, with the last two changed,
\* with one digit more, a C100, and a C170 of one field
SimRecords == <<
    <<C170, <<"1", "2", "3", "4", "5", "6", "7", "8", "9", "0", "1", "2", "3", "4", "5">>>>,
    <<C170, <<"1", "2", "3", "4", "5", "6", "7", "8", "9", "0", "1", "2", "3", "4", "0">>>>,
    <<C170, <<"1", "2", "3", "4", "5", "6", "7", "8", "9", "0", "1", "2", "3", "0", "0">>>>,
    <<C170, <<"1", "2", "3", "4", "5", "6", "7", "8", "9", "0", "1", "2", "3", "4", "5", "6">>>>,
    <<C100, <<"1">>>>,
    <<C170>>
>>

\* most records of a compared file
MaxSimRecords == 2

SimInputs ==
    UNION {{[i \in 1..n |-> Record(i, SimRecords[c[i]][1], SimRecords[c[i]])] :
                c \in [1..n -> 1..Len(SimRecords)]} : n \in 0..MaxSimRecords}

\* SPEDComparator(sped_a.sped.records, sped_b.sped.records)
InitSimilarity ==
    /\ sim_ref \in SimInputs
    /\ sim_aud \in SimInputs
    /\ sim_result = NoSimilarity
    /\ EngineIdle
    /\ ParserIdle
    /\ ComparatorIdle
    /\ IdentifierIdle
    /\ ImpactIdle
    /\ FixIdle

\* comparator.compare()
SimCompare ==
    /\ sim_result = NoSimilarity
    /\ sim_result' = SimilarityCompare(sim_ref, sim_aud)
    /\ UNCHANGED <<sim_ref, sim_aud>>
    /\ UNCHANGED <<engineVars, parserVars, comparatorVars, identifierVars,
                   impactVars, fixVars>>

NextSimilarity == SimCompare

SpecSimilarity == InitSimilarity /\ [][NextSimilarity]_vars

----------------------------------------------------------------------------
(* get_impact_summary of the engine, called in place of fix_all or after   *)
(* it                                                                      *)

\* severity_count of get_impact_summary: the issues of each severity, the
\* three it starts with and those the issues bring
SeverityCount(found) ==
    [s \in {"error", "warning", "info"} \cup {found[k].severity : k \in 1..Len(found)} |->
        Len(SelectSeq(found, LAMBDA i : i.severity = s))]

\* the report of get_impact_summary, without blocos_afetados and
\* valor_impacto_estimado, which are drawn from the impact details
ImpactSummary(found) ==
    [total_problemas |-> Len(found), por_severidade |-> SeverityCount(found)]

InitSummary ==
    /\ input \in Inputs
    /\ sped_type \in SpedTypes
    /\ records = LoadSpd(input)
    /\ loaded = LoadSpd(input)
    /\ rules = GetRulesForType(sped_type)
    /\ issues = <<>>
    /\ ri = 1
    /\ idx = 0
    /\ snapshot = LoadSpd(input)
    /\ visited = <<>>
    /\ pc = "fixing"
    /\ run = 1
    /\ output = <<>>
    /\ ParserIdle
    /\ ComparatorIdle
    /\ IdentifierIdle
    /\ ImpactIdle
    /\ SimilarityIdle
    /\ FixIdle

\* fix_all called by the view, get_impact_summary not yet called
FixAllFirst ==
    /\ spc = "idle"
    /\ Visit \/ NextRule \/ FixAllReturn

\* get_impact_summary is called, on the engine as constructed or after
\* fix_all has returned: its first statement calls fix_all, which starts
\* with an empty list of issues
GetImpactSummaryCall ==
    /\ spc = "idle"
    /\ \/ pc = "fixed"
       \/ pc = "fixing" /\ ri = 1 /\ idx = 0
    /\ spc' = "calling"
    /\ held' = records
    /\ issues' = <<>>
    /\ ri' = 1
    /\ idx' = 0
    /\ snapshot' = records
    /\ visited' = <<>>
    /\ pc' = "fixing"
    /\ UNCHANGED <<input, sped_type, rules, records, run, output, loaded>>
    /\ UNCHANGED <<problematic, impacts, impact_summary>>
    /\ UNCHANGED <<parserVars, comparatorVars, identifierVars, similarityVars, fixVars>>

\* the loops of the fix_all that get_impact_summary called
SummaryFixAll ==
    /\ spc = "calling"
    /\ Visit \/ NextRule

\* fix_all returns its issues and get_impact_summary its report
GetImpactSummaryReturn ==
    /\ spc = "calling"
    /\ pc = "fixing"
    /\ ri > Len(rules)
    /\ pc' = "fixed"
    /\ impact_summary' = ImpactSummary(issues)
    /\ spc' = "returned"
    /\ UNCHANGED <<input, sped_type, rules, records, issues, ri, idx, run, output,
                   loaded, snapshot, visited>>
    /\ UNCHANGED <<problematic, impacts, held>>
    /\ UNCHANGED <<parserVars, comparatorVars, identifierVars, similarityVars, fixVars>>

NextSummary ==
    \/ FixAllFirst
    \/ GetImpactSummaryCall
    \/ SummaryFixAll
    \/ GetImpactSummaryReturn

SpecSummary == InitSummary /\ [][NextSummary]_vars

----------------------------------------------------------------------------
(* Properties                                                              *)

LineNos(recs) == [i \in 1..Len(recs) |-> recs[i].line_no]
Range(f) == {f[i] : i \in DOMAIN f}

\* a text without its final "\n", if it has one
DropFinalNL(t) == IF Len(t) > 0 /\ Last(t) = NL THEN SubSeq(t, 1, Len(t) - 1) ELSE t

\* the ids of the rules of the request that repair automatically
AutoFixIds == {RuleId(rules[k]) : k \in {k \in 1..Len(rules) : AutoFix(rules[k])}}

\* C1: running load, fix_all, get_corrected_content on a file and then again
\* on the text produced gives the same text, and the second run reports no
\* issue of a rule that repairs automatically.
Idempotent ==
    (pc = "emitted" /\ run = 2) =>
        /\ output[2] = output[1]
        /\ \A i \in 1..Len(issues) : issues[i].rule_id \notin AutoFixIds

\* the framing |REG|f1|...|fN| of a line: reg non-empty, at least one field
Canonical(line) ==
    LET parts == Split(line, PIPE)
    IN  /\ Len(parts) >= 4
        /\ parts[1] = <<>>
        /\ Last(parts) = <<>>
        /\ parts[2] # <<>>

AllCanonical(text) ==
    \A i \in 1..Len(TextLines(text)) : Canonical(TextLines(text)[i])

\* C2 as stated: for any text, reassemble(parse(text)) is the text up to the
\* final newline.
RoundTrip ==
    ppc = "reassembled" => DropFinalNL(pout) = DropFinalNL(ptext)

\* C2 as amended: for a text whose every line has the framing |REG|f1|...|fN|
\* (REG not empty, N >= 1), reassemble(parse(text)) is the text up to the
\* final newline, and parse gives one record per line, in order, with the
\* line's number, its REG and its fields, the empty ones included.
RoundTripCanonical ==
    (ppc = "reassembled" /\ AllCanonical(ptext)) =>
        /\ DropFinalNL(pout) = DropFinalNL(ptext)
        /\ Len(precs) = Len(TextLines(ptext))
        /\ \A i \in 1..Len(precs) :
              LET parts == Split(TextLines(ptext)[i], PIPE)
              IN  /\ precs[i].line_no = i
                  /\ precs[i].reg = parts[2]
                  /\ precs[i].fields = SubSeq(parts, 3, Len(parts) - 1)

\* a canonical text of several lines, one with an empty field, given without
\* its final newline, has been parsed and reassembled
RoundTripWitness ==
    /\ ppc = "reassembled"
    /\ AllCanonical(ptext)
    /\ Len(precs) >= 2
    /\ \E i \in 1..Len(precs) : \E k \in 1..Len(precs[i].fields) :
          precs[i].fields[k] = <<>>
    /\ Last(ptext) # NL

\* the line "|" + reg + "|" + data fields joined by "|" + "|" of a record
FramedLine(record) ==
    <<PIPE>> \o record.reg \o <<PIPE>> \o Join(Tail(record.fields), PIPE) \o <<PIPE>>

\* C3: the corrected text has one line per record of the Context, in Context
\* order, each "|" + reg + "|" + data fields joined by "|" + "|" and ended by
\* a line feed.
FramingKept ==
    pc = "emitted" =>
        Last(output) = FileText([i \in 1..Len(records) |-> FramedLine(records[i])])

\* every C170 of the file comes after some C100
WellFormedItems ==
    \A i \in 1..Len(loaded) :
        loaded[i].reg = C170 => LastBefore(loaded, i, C100) # NoParent

\* the C100 a C170 of the file belongs to: the last C100 before it
OwnerOf(line_no) ==
    LastBefore(loaded, CHOOSE i \in 1..Len(loaded) : loaded[i].line_no = line_no, C100)

\* C4: after every rule invocation, every C170 in the Context has a parent,
\* the parent is in the Context, and no C170 outlives the C100 it belongs to.
ParentIntegrity ==
    (run = 1 /\ WellFormedItems /\ pc \in {"fixing", "fixed"} /\ (ri > 1 \/ idx > 0)) =>
        \A i \in 1..Len(records) :
            records[i].reg = C170 =>
                /\ records[i].parent # NoParent
                /\ records[i].parent \in Range(LineNos(records))
                /\ OwnerOf(records[i].line_no) \in Range(LineNos(records))

\* how many times x occurs in s
Count(s, x) == Cardinality({i \in 1..Len(s) : s[i] = x})

\* C5: a rule's pass visits the records of a snapshot taken when the pass
\* starts, so that every record of the snapshot still in the Context at the
\* end of the pass was validated exactly once.
IterationOverSnapshot ==
    (pc = "fixing" /\ ri <= Len(rules) /\ IterDone(records, idx)) =>
        /\ visited = LineNos(snapshot)
        /\ \A i \in 1..Len(records) : Count(visited, records[i].line_no) = 1

\* C6: at any point of a repair pass the Context holds a subset of the
\* records that were loaded, in file order, each with the reg it was loaded
\* with under its line number.
OnlyRemoves ==
    /\ \A i \in 1..Len(records) :
          \E j \in 1..Len(loaded) :
              /\ loaded[j].line_no = records[i].line_no
              /\ loaded[j].reg = records[i].reg
    /\ \A i \in 1..Len(records) : \A k \in 1..Len(records) :
          i < k => records[i].line_no < records[k].line_no

\* fix_all has returned after removing a record that a retained one follows
OnlyRemovesWitness ==
    /\ pc = "fixed"
    /\ \E j \in 1..Len(loaded) :
          /\ loaded[j].line_no \notin Range(LineNos(records))
          /\ \E i \in 1..Len(records) : records[i].line_no > loaded[j].line_no

\* C7: fix_all never raises, whatever the file.
NeverRaises == pc # "raised"

\* C8: the rules of a request are common + fiscal for type fiscal, common +
\* contrib for contrib, common + fiscal + contrib for both, common otherwise.
SelectsByType ==
    Range(rules) =
        Range(CommonRules)
          \cup (IF sped_type \in {"fiscal", "both"} THEN Range(FiscalRules) ELSE {})
          \cup (IF sped_type \in {"contrib", "both"} THEN Range(ContribRules) ELSE {})

\* position in rules of the rule that reports under id
RulePos(id) == CHOOSE k \in 1..Len(rules) : RuleId(rules[k]) = id

\* issue a comes before issue b in (rule position, line number) order
IssueLeq(a, b) ==
    \/ RulePos(a.rule_id) < RulePos(b.rule_id)
    \/ RulePos(a.rule_id) = RulePos(b.rule_id) /\ a.line_no <= b.line_no

\* C9: a pass visits the records in ascending line number, no rule reports
\* before its turn, and the issues are in (rule position, line number) order.
Ordered ==
    /\ \A i \in 1..Len(visited) : \A k \in 1..Len(visited) :
          i < k => visited[i] < visited[k]
    /\ \A i \in 1..Len(issues) : RulePos(issues[i].rule_id) <= ri
    /\ \A i \in 1..Len(issues) : \A k \in 1..Len(issues) :
          i < k => IssueLeq(issues[i], issues[k])

\* fix_all has returned an issue of an earlier rule on a later line before
\* an issue of a later rule on an earlier line
OrderedWitness ==
    /\ pc = "fixed"
    /\ \E i \in 1..Len(issues) : \E k \in 1..Len(issues) :
          /\ i < k
          /\ RulePos(issues[i].rule_id) < RulePos(issues[k].rule_id)
          /\ issues[i].line_no > issues[k].line_no

\* C11: the issue list never holds two issues with the same line number and
\* the same rule id.
IssuesDeduplicated ==
    \A i \in 1..Len(issues) : \A k \in 1..Len(issues) :
        i < k => ~(/\ issues[i].line_no = issues[k].line_no
                   /\ issues[i].rule_id = issues[k].rule_id)

\* the positions in the file of the records of the reg and the access key
\* (field index 8) of the record at position j
SameKeyDocs(j) ==
    {i \in 1..Len(loaded) : /\ loaded[i].reg = loaded[j].reg
                            /\ HasF(loaded[i], 8)
                            /\ F(loaded[i], 8) = F(loaded[j], 8)}

\* C12: once the R015 pass is over, of several C100 (or C500) that share an
\* access key exactly one is in the Context, the last of the file.
R015KeepsLast ==
    (sped_type = "fiscal" /\ run = 1 /\ pc \in {"fixing", "fixed"} /\ ri > 1) =>
        \A j \in 1..Len(loaded) :
            (/\ loaded[j].reg \in {C100, C500}
             /\ HasF(loaded[j], 8)
             /\ Cardinality(SameKeyDocs(j)) >= 2) =>
                {i \in SameKeyDocs(j) : loaded[i].line_no \in Range(LineNos(records))}
                    = {Max(SameKeyDocs(j))}

\* the positions in the file of the 0150 with the CNPJ of the one at j
SameCNPJ(j) ==
    {i \in 1..Len(loaded) : /\ loaded[i].reg = R0150
                            /\ HasF(loaded[i], 1)
                            /\ F(loaded[i], 1) = F(loaded[j], 1)}

\* C13: the R007 pass over n >= 2 records 0150 of one CNPJ reports n - 1
\* issues, one on each but the last, and leaves the last alone in the Context.
R007KeepsLast ==
    (pc = "fixed" /\ rules = <<"R007_DuplicateCNPJ">>) =>
        \A j \in 1..Len(loaded) :
            (loaded[j].reg = R0150 /\ Cardinality(SameCNPJ(j)) >= 2) =>
                /\ \A i \in SameCNPJ(j) :
                      Cardinality({k \in 1..Len(issues) :
                                      issues[k].line_no = loaded[i].line_no})
                          = IF i = Max(SameCNPJ(j)) THEN 0 ELSE 1
                /\ {i \in SameCNPJ(j) : loaded[i].line_no \in Range(LineNos(records))}
                      = {Max(SameCNPJ(j))}

\* the C170 at position k of the file repeats the one at position j: a later
\* item of the same C100 with the same item code and the same item value
RepeatsItem(j, k) ==
    /\ j < k
    /\ loaded[j].reg = C170 /\ loaded[k].reg = C170
    /\ OwnerOf(loaded[j].line_no) # NoParent
    /\ OwnerOf(loaded[j].line_no) = OwnerOf(loaded[k].line_no)
    /\ HasF(loaded[j], 6) /\ HasF(loaded[k], 6)
    /\ F(loaded[j], 2) = F(loaded[k], 2)
    /\ F(loaded[j], 6) = F(loaded[k], 6)

\* C14: once the RC170 pass is over, every C170 that a later one repeats has
\* an RC170 issue and is no longer in the Context.
RC170KeepsLast ==
    (sped_type = "fiscal" /\ run = 1 /\ pc \in {"fixing", "fixed"} /\ ri > 2) =>
        \A j \in 1..Len(loaded) : \A k \in 1..Len(loaded) :
            RepeatsItem(j, k) =>
                /\ \E n \in 1..Len(issues) :
                      /\ issues[n].rule_id = "RC170"
                      /\ issues[n].line_no = loaded[j].line_no
                /\ loaded[j].line_no \notin Range(LineNos(records))

\* the sum of VL_ITEM (field index 5) over the H010 of the file, in hundredths
H010Sum ==
    LET h010s == SelectSeq(loaded, LAMBDA r : r.reg = H010 /\ HasF(r, 5))
    IN  SumSeq([k \in 1..Len(h010s) |-> FloatOr0(F(h010s[k], 5))])

\* C15: an H005 whose VL_INV (field index 1) is more than 0.01 away from the
\* sum of VL_ITEM over the H010 gets an issue, and after the fix its field
\* index 1 is that sum with two decimals.
InventoryTotalRepaired ==
    (pc = "fixed" /\ rules = <<"R014_InventoryValueMismatch">>) =>
        \A i \in 1..Len(records) :
            (/\ records[i].reg = H005
             /\ BeyondTolerance(FloatOr0(F(loaded[CHOOSE j \in 1..Len(loaded) :
                                    loaded[j].line_no = records[i].line_no], 1)),
                                H010Sum)) =>
                /\ \E n \in 1..Len(issues) : issues[n].line_no = records[i].line_no
                /\ F(records[i], 1) = Format2(H010Sum)

\* C16: comparing the two files swapped swaps the counts of missing and of
\* extra records.
SwapSymmetry ==
    cpc = "swapped" =>
        /\ result.summary.missing_records = previous.summary.extra_records
        /\ result.summary.extra_records = previous.summary.missing_records

\* the kinds compared by semantic key
KeyedKinds == {C100, C170, H010}

\* the records of a kind in a file that have the semantic key
WithKey(data, kind, key) ==
    SelectSeq(Get(data, kind), LAMBDA r : Keyed(kind, r) /\ SemanticKey(kind, r) = key)

\* the semantic keys of a kind in a file
KeysOf(data, kind) ==
    {SemanticKey(kind, Get(data, kind)[i]) :
        i \in {i \in 1..Len(Get(data, kind)) : Keyed(kind, Get(data, kind)[i])}}

\* how many differences of the type are reported for the kind and the key
Reported(type, kind, key) ==
    Cardinality({i \in 1..Len(result.differences) :
                    /\ result.differences[i].type = type
                    /\ result.differences[i].record_type = kind
                    /\ result.differences[i].key = key})

\* C17: for each compared kind, a key of the audit file gets one
\* duplicate_record difference for each of its records beyond the first, and
\* a key of the reference file alone gets none.
AuditDuplicatesReported ==
    cpc = "compared" =>
        \A kind \in KeyedKinds :
            /\ \A key \in KeysOf(aud_data, kind) :
                  Reported("duplicate_record", kind, key)
                      = Len(WithKey(aud_data, kind, key)) - 1
            /\ \A key \in KeysOf(ref_data, kind) \ KeysOf(aud_data, kind) :
                  Reported("duplicate_record", kind, key) = 0

\* C18: for each compared kind, a key of the reference file that the audit
\* file lacks gets exactly one missing_record difference, and a key of the
\* audit file that the reference file lacks exactly one extra_record
\* difference, however often the key occurs.
MissingExtraClassified ==
    cpc = "compared" =>
        \A kind \in KeyedKinds :
            /\ \A key \in KeysOf(ref_data, kind) \ KeysOf(aud_data, kind) :
                  Reported("missing_record", kind, key) = 1
            /\ \A key \in KeysOf(aud_data, kind) \ KeysOf(ref_data, kind) :
                  Reported("extra_record", kind, key) = 1

\* the sum, in hundredths, of the field at index over the records of a kind
\* that have it
FieldTotal(data, kind, index) ==
    LET having == SelectSeq(Get(data, kind), LAMBDA r : HasF(r, index))
    IN  SumSeq([i \in 1..Len(having) |-> ParseFloat(F(having[i], index))])

\* C19: a BLOCK_C TOTAL difference is reported exactly when the sums of
\* VL_DOC (C100 index 10) plus VL_ITEM (C170 index 12) of the two files are
\* more than 0.01 apart, and a BLOCK_H TOTAL difference exactly when the sums
\* of VL_ITEM (H010 index 5) are.
BlockTotalsCompared ==
    cpc = "compared" =>
        /\ Reported("value_difference", <<"BLOCK_", "C">>, <<"TOTAL">>) = 1
              <=> BeyondTolerance(
                    FieldTotal(ref_data, C100, 10) + FieldTotal(ref_data, C170, 12),
                    FieldTotal(aud_data, C100, 10) + FieldTotal(aud_data, C170, 12))
        /\ Reported("value_difference", <<"BLOCK_", "H">>, <<"TOTAL">>) = 1
              <=> BeyondTolerance(FieldTotal(ref_data, H010, 5),
                                  FieldTotal(aud_data, H010, 5))

\* the invalid-CST indicator as the claim states it: some C170 has, at index
\* 29 or at index 32, a non-empty value outside the fiscal range
InvalidCstIndicator ==
    \E i \in 1..Len(irecords) : \E at \in {29, 32} :
        /\ irecords[i].reg = C170
        /\ HasF(irecords[i], at)
        /\ F(irecords[i], at) # <<>>
        /\ F(irecords[i], at) \notin FiscalCst

\* a contrib indicator holds: a record of block M or 1, a PIS/COFINS
\* assessment record, an opening record 1001, 1010 or 9001, or the
\* invalid-CST indicator
AnyContribIndicator ==
    \/ \E i \in 1..Len(irecords) :
          \/ StartsWith(irecords[i].reg, {"M", "1"})
          \/ irecords[i].reg = <<"9", "0", "0", "1">>
    \/ InvalidCstIndicator

\* C20: identify_type returns both when a record of block E or H exists and
\* a contrib indicator holds, fiscal when only the fiscal side holds, contrib
\* when a contrib indicator holds without the fiscal side, unknown otherwise,
\* the invalid-CST indicator holding for every C170 long enough to have a
\* value out of the range at index 29 or at index 32.
TypeIdentified ==
    identified # "idle" =>
        LET fiscal == \E i \in 1..Len(irecords) : StartsWith(irecords[i].reg, {"E", "H"})
        IN  identified = IF fiscal /\ AnyContribIndicator THEN "both"
                         ELSE IF fiscal THEN "fiscal"
                         ELSE IF AnyContribIndicator THEN "contrib"
                         ELSE "unknown"

\* the record of the context with the line number
RecordAt(line_no) == Deref(records, line_no)

\* the record given to trace_impact
Problematic == RecordAt(problematic)

Traced == problematic # NoRecord

\* C21: among the C170 records trace_impact returns for a C100, each is a
\* child of that C100: its parent is the record given.
ImpactOnlyChildren ==
    (Traced /\ Problematic.reg = C100) =>
        \A i \in 1..Len(impacts) :
            RecordAt(impacts[i]).reg = C170 => RecordAt(impacts[i]).parent = problematic

\* C22: trace_impact of an H005 returns the H010, H020 and H030 records of
\* the context.
ImpactOfInventory ==
    (Traced /\ Problematic.reg = H005) =>
        \A i \in 1..Len(records) :
            records[i].reg \in {H010, H020, <<"H", "0", "3", "0">>}
                => records[i].line_no \in Range(impacts)

\* the document key of a C100 or, through its parent, of a C170; None when
\* there is none
DocumentKey(record) ==
    LET doc == IF record.reg = C100 THEN <<record>>
               ELSE IF record.reg = C170 /\ record.parent # NoParent
                    THEN SelectSeq(<<Deref(loaded, record.parent)>>, LAMBDA p : p.reg = C100)
               ELSE <<>>
    IN  IF Len(doc) = 1 /\ HasF(doc[1], 8) THEN F(doc[1], 8) ELSE None

\* C23: trace_impact of a C100 or C170 returns a C190 exactly when the C190's
\* document-key field (index 2) equals the document key of the record given,
\* and returns every E110; with a C170 whose parent is unset no C190 is
\* returned.
RelatedOnly ==
    (Traced /\ Problematic.reg \in {C100, C170}) =>
        \A i \in 1..Len(records) :
            /\ records[i].reg = C190 =>
                  (records[i].line_no \in Range(impacts)
                      <=> HasF(records[i], 2) /\ F(records[i], 2) = DocumentKey(Problematic))
            /\ records[i].reg = E110 => records[i].line_no \in Range(impacts)

\* a C170 whose parent is set was traced: a C190 of its document was
\* returned, and an E110
RelatedOnlyWitness ==
    /\ Traced
    /\ Problematic.reg = C170
    /\ Problematic.parent # NoParent
    /\ \E i \in 1..Len(impacts) : RecordAt(impacts[i]).reg = C190

\* the record fix was last called on, as it was before the call and as it is
FixedBefore == Deref(prior, Last(fixed))
FixedNow == Deref(records, Last(fixed))

\* C24: R028's fix leaves a C100, C170 or H020 record unchanged when
\* validate reports no issue on it, and a second fix leaves the record as
\* the first fix made it.
NormaliserNoOp ==
    (/\ rules = <<"R028_NumericFormat">>
     /\ fixed # <<>>
     /\ FixedBefore.reg \in {C100, C170, H020}
     /\ \/ Len(fixed) = 2
        \/ /\ ~R028Validate(FixedBefore, prior).raised
           /\ R028Validate(FixedBefore, prior).issues = <<>>)
        => FixedNow.fields = FixedBefore.fields

\* C25: when fix_all has run RH990 alone and RH990 reported that QTD_LIN_H
\* differs from the number of H records, the H990 of the context has that
\* number in field 1 and validate reports nothing more on it.
HBlockCountRepaired ==
    (pc = "fixed" /\ rules = <<"RH990_END_BLOCK_H">> /\ fixed = <<>>) =>
        \A k \in 1..Len(issues) :
            issues[k].message.nums # <<>> =>
                /\ RecordAt(issues[k].line_no).fields[2] = DigitsOf(CountH(records))
                /\ RH990Validate(RecordAt(issues[k].line_no), records).issues = <<>>

\* the first digit R017's fix is to give a CFOP, for the operation type
RepairedPrefix(tp_op, cfop) ==
    IF tp_op = <<"0">> /\ StartsWith(cfop, {"5", "6", "7"})
    THEN (CASE cfop[1] = "5" -> "1" [] cfop[1] = "6" -> "2" [] cfop[1] = "7" -> "3")
    ELSE IF tp_op = <<"1">> /\ StartsWith(cfop, {"1", "2", "3"})
    THEN (CASE cfop[1] = "1" -> "5" [] cfop[1] = "2" -> "6" [] cfop[1] = "3" -> "7")
    ELSE "none"

\* C26: R017's fix of an entry record whose CFOP starts with 5, 6 or 7 puts
\* 1, 2 or 3 in its place, of an exit record whose CFOP starts with 1, 2 or
\* 3 puts 5, 6 or 7, and leaves the other digits and the other fields alone.
CfopRepaired ==
    (/\ rules = <<"R017_InvalidCFOP">>
     /\ Len(fixed) = 1
     /\ FixedBefore.reg \in {C100, C170}
     /\ HasF(FixedBefore, IF FixedBefore.reg = C100 THEN 11 ELSE 9)) =>
        LET at == IF FixedBefore.reg = C100 THEN 12 ELSE 10
            digit == RepairedPrefix(F(FixedBefore, 2), FixedBefore.fields[at])
        IN  digit # "none" =>
                FixedNow.fields =
                    [FixedBefore.fields EXCEPT ![at] = <<digit>> \o Tail(FixedBefore.fields[at])]

\* C27: compare of the similarity comparator returns for every input, the
\* empty reference included; the matched records and the divergences are
\* together the reference records, and the similarity returned is
\* matched / total, between 0 and 1.
SimilarityDefined ==
    sim_result # NoSimilarity =>
        /\ ~sim_result.raised
        /\ sim_result.matched_count + Len(sim_result.divergences) = Len(sim_ref)
        /\ sim_result.similarity_percent.num >= 0
        /\ sim_result.similarity_percent.num <= sim_result.similarity_percent.den
        /\ sim_result.similarity_percent.num * Len(sim_ref)
              = sim_result.matched_count * sim_result.similarity_percent.den

\* what C28 says of the records read from a text: one for each line that
\* holds a token, in the order and with the numbers of the lines; the first
\* token of a line without a leading "|" is the reg, and the last field of a
\* line without a trailing "|" is kept
ReadAsFramed(recs, text) ==
    LET lines == TextLines(text)
        parts(i) == Split(Strip(lines[i]), PIPE)
        holds_token(i) == \E k \in 1..Len(parts(i)) : parts(i)[k] # <<>>
    IN  /\ LineNos(recs) = SelectSeq([i \in 1..Len(lines) |-> i], holds_token)
        /\ \A k \in 1..Len(recs) :
              recs[k].line_no \in 1..Len(lines) =>
                  /\ Strip(lines[recs[k].line_no])[1] # PIPE =>
                        recs[k].reg = parts(recs[k].line_no)[1]
                  /\ (/\ Last(Strip(lines[recs[k].line_no])) # PIPE
                      /\ Len(parts(recs[k].line_no)) >= 2) =>
                        /\ recs[k].fields # <<>>
                        /\ Last(recs[k].fields) = Last(parts(recs[k].line_no))

\* C28: SpedParser.parse and the engine's _load_spd make one record for each
\* line that holds a token, numbered as the line is, blank lines counted, and
\* none for a line without a token; a line without the leading "|" gives its
\* first token as reg, a line without the trailing "|" keeps its last field.
RecordPerTokenLine ==
    ppc # "text" =>
        /\ ReadAsFramed(precs, ptext)
        /\ ReadAsFramed(LoadSpd(ptext), ptext)

\* the differences of the result that are of the type
OfType(type) == Len(SelectSeq(result.differences, LAMBDA d : d.type = type))

\* C29: after every compare, a second one on the same comparator included,
\* each of missing_records, extra_records, value_differences and
\* quantity_differences of the summary is the number of the differences
\* returned that are of its type.
SummaryCountsDifferences ==
    cpc \in {"compared", "swapped"} =>
        /\ result.summary.missing_records = OfType("missing_record")
        /\ result.summary.extra_records = OfType("extra_record")
        /\ result.summary.value_differences = OfType("value_difference")
        /\ result.summary.quantity_differences = OfType("quantity_difference")

\* C30: when get_impact_summary has returned, called in place of fix_all or
\* after it, the Context holds the records it held at the call, each with
\* the fields it had, and total_problemas is the number of the issues of the
\* fix_all it ran.
SummaryReadOnly ==
    spc = "returned" =>
        /\ records = held
        /\ impact_summary.total_problemas = Len(issues)


=============================================================================
